---------------------------- MODULE Spec2Model ----------------------------
(***************************************************************************)
(* SchemaMap transformation engine (jsontools / jsonchamp): the path       *)
(* engine, the builtin transforms, the interpreter (SchemaMapTransformer   *)
(* over ExpressionEvaluator), the generated transformer emitted by         *)
(* PythonCodeGenerator, and the FunctionRegistry.                          *)
(*                                                                         *)
(* Python values are tagged records.  A Python str is a sequence of        *)
(* characters (one-character TLA+ strings; an identifier that the code     *)
(* never looks inside may be written as one atom).  Dict keys are TLA+     *)
(* strings, built from characters with \o.  A Python exception is the      *)
(* field err of a result record: "" means the call returned.               *)
(***************************************************************************)
EXTENDS Integers, Sequences, FiniteSets, TLC

VARIABLES
    mfile,      \* the parsed MappingFile the transformer was built from
    record,     \* the source record handed to transform
    interp,     \* outcome of SchemaMapTransformer.transform
    comp,       \* outcome of the generated transformer's transform
    when_state, \* ExpressionEvaluator._when_state["matched"]
    path,       \* path engine: the path string under test
    val,        \* path engine: the value written
    data,       \* path engine: the target dict (outcome of set_value)
    got,        \* path engine: outcome of get_value
    tv,         \* transform call: the call and its outcomes
    functions,  \* FunctionRegistry._functions: name -> callable
    modules,    \* FunctionRegistry._modules: the keys
    function_metadata, \* FunctionRegistry._function_metadata: name -> source
    regerr,     \* FunctionRegistry: whether the last operation raised
    src_text,   \* the SchemaMap source text handed to the lexer / to parse
    lex,        \* SchemaMapLexer: pos, line, column
    toks,       \* SchemaMapLexer.tokens
    lexout,     \* tokenize: running, returned, or the exception raised
    ptoks,      \* SchemaMapParser.tokens
    ppos,       \* SchemaMapParser.pos
    presult,    \* parse(): the MappingFile being filled
    pblock,     \* parse(): the block whose mappings are being read
    ppc,        \* parse(): at the test of the loop it is in, or in its body
    pout,       \* parse(): running, returned, or the ParserError raised
    tables,     \* SchemaMapTransformer.lookups: name -> table
    built,      \* SchemaMapTransformer.__init__: the step it is at, or its outcome
    context,    \* ExpressionEvaluator.context
    threads     \* the transform call of each thread: its record, its position, its target_data

vars == <<mfile, record, interp, comp, when_state, path, val, data, got, tv,
          functions, modules, function_metadata, regerr,
          src_text, lex, toks, lexout, ptoks, ppos, presult, pblock, ppc, pout,
          tables, built, context, threads>>

---------------------------------------------------------------------------
(* Value model *)

VNull == [t |-> "null"]
VBool(b) == [t |-> "bool", v |-> b]
VInt(n) == [t |-> "int", v |-> n]
VStr(s) == [t |-> "str", v |-> s]
VList(s) == [t |-> "list", v |-> s]
VMap(f) == [t |-> "map", v |-> f]

EmptyMap == VMap(<<>>)
EmptyList == VList(<<>>)
EmptyStr == VStr(<<>>)

IsNull(x) == x.t = "null"
IsList(x) == x.t = "list"
IsMap(x) == x.t = "map"
IsStr(x) == x.t = "str"

Keys(m) == DOMAIN m.v
HasKey(m, k) == IsMap(m) /\ k \in DOMAIN m.v
\* dict.get(k)
DictGet(m, k) == IF k \in DOMAIN m.v THEN m.v[k] ELSE VNull
\* d[k] = x
DictPut(m, k, x) == VMap([kk \in (DOMAIN m.v) \cup {k} |-> IF kk = k THEN x ELSE m.v[kk]])
\* one-entry dict literal
Dict1(k, x) == DictPut(EmptyMap, k, x)
Dict2(k1, x1, k2, x2) == DictPut(Dict1(k1, x1), k2, x2)

\* a Python str used as a dict key
RECURSIVE Cat(_)
Cat(cs) == IF cs = <<>> THEN "" ELSE Head(cs) \o Cat(Tail(cs))

\* an int used as a dict key: never equal to a str key
IntKey(n) == "#int:" \o ToString(n)

\* list.append / padding
RECURSIVE Pad(_, _, _)
Pad(s, n, x) == IF Len(s) >= n THEN s ELSE Pad(Append(s, x), n, x)

\* an index check that admits no index counted from the end
InRangeFromStart(s, i) == 0 <= i /\ i < Len(s)

\* Python list index: -len <= i < len
InRange(s, i) == -Len(s) <= i /\ i < Len(s)
At(s, i) == IF i >= 0 THEN s[i + 1] ELSE s[Len(s) + i + 1]
SetAt(s, i, x) == [s EXCEPT ![IF i >= 0 THEN i + 1 ELSE Len(s) + i + 1] = x]

Ok(x) == [err |-> "", v |-> x]
Raise(e) == [err |-> e, v |-> VNull]

---------------------------------------------------------------------------
(* Path strings *)

Digits == <<"0", "1", "2", "3", "4", "5", "6", "7", "8", "9">>
IsDigit(c) == \E i \in 1..10 : Digits[i] = c
DigitVal(c) == (CHOOSE i \in 1..10 : Digits[i] = c) - 1

RECURSIVE NatOf(_, _)
NatOf(cs, acc) == IF cs = <<>> THEN acc ELSE NatOf(Tail(cs), 10 * acc + DigitVal(Head(cs)))

AllDigits(cs) == cs # <<>> /\ \A i \in 1..Len(cs) : IsDigit(cs[i])
\* int(index_str) succeeds
IsIntStr(cs) ==
    \/ AllDigits(cs)
    \/ cs # <<>> /\ Head(cs) \in {"-", "+"} /\ AllDigits(Tail(cs))
IntOf(cs) ==
    IF Head(cs) = "-" THEN 0 - NatOf(Tail(cs), 0)
    ELSE IF Head(cs) = "+" THEN NatOf(Tail(cs), 0)
    ELSE NatOf(cs, 0)

\* str(n) for an int
IntStr(n) ==
    LET RECURSIVE D(_)
        D(k) == IF k < 10 THEN <<Digits[k + 1]>> ELSE D(k \div 10) \o <<Digits[(k % 10) + 1]>>
    IN IF n < 0 THEN <<"-">> \o D(0 - n) ELSE D(n)

\* ".".join(parts)
RECURSIVE JoinWith(_, _)
JoinWith(parts, sep) ==
    IF parts = <<>> THEN <<>>
    ELSE IF Len(parts) = 1 THEN parts[1]
    ELSE parts[1] \o sep \o JoinWith(Tail(parts), sep)

\* first position >= i of character c in s, 0 if none
RECURSIVE IndexFrom(_, _, _)
IndexFrom(s, c, i) ==
    IF i > Len(s) THEN 0 ELSE IF s[i] = c THEN i ELSE IndexFrom(s, c, i + 1)

\* first position of the substring "[*]" in s, 0 if none
RECURSIVE StarAt(_, _)
StarAt(s, i) ==
    IF i + 2 > Len(s) THEN 0
    ELSE IF s[i] = "[" /\ s[i + 1] = "*" /\ s[i + 2] = "]" THEN i
    ELSE StarAt(s, i + 1)
HasStar(s) == StarAt(s, 1) # 0

\* s.lstrip(".")
RECURSIVE LStripDot(_)
LStripDot(s) == IF s # <<>> /\ Head(s) = "." THEN LStripDot(Tail(s)) ELSE s

\* path segments: a name (a str, "*" included) or an int
SegName(s) == [k |-> "name", s |-> s]
SegIdx(i) == [k |-> "idx", i |-> i]
Star == SegName("*")

\* ExpressionEvaluator._parse_path: the scan over the characters of the path
RECURSIVE parse_path_from(_, _, _, _)
parse_path_from(p, i, current, segments) ==
    IF i > Len(p) THEN
        IF current # "" THEN Append(segments, SegName(current)) ELSE segments
    ELSE IF p[i] = "." THEN
        parse_path_from(p, i + 1, "",
            IF current # "" THEN Append(segments, SegName(current)) ELSE segments)
    ELSE IF p[i] = "[" THEN
        LET segs1 == IF current # "" THEN Append(segments, SegName(current)) ELSE segments
            j == IndexFrom(p, "]", i)
            index_str == SubSeq(p, i + 1, j - 1)
            seg == IF index_str = <<"*">> THEN Star
                   ELSE IF IsIntStr(index_str) THEN SegIdx(IntOf(index_str))
                   ELSE SegName(Cat(index_str))
        IN parse_path_from(p, j + 1, "", Append(segs1, seg))
    ELSE parse_path_from(p, i + 1, current \o p[i], segments)

parse_path(p) == parse_path_from(p, 1, "", <<>>)


---------------------------------------------------------------------------
(* Python container primitives over the value model *)

\* x == y: bool is an int in Python (True == 1) and a float equals the int of
\* the same value (1.0 == 1), at every depth
RECURSIVE Norm(_)
Norm(x) ==
    IF x.t = "bool" THEN VInt(IF x.v THEN 1 ELSE 0)
    ELSE IF x.t = "float" /\ x.den = 1 THEN VInt(x.num)
    ELSE IF x.t = "float" THEN x
    ELSE IF x.t = "list" THEN VList([i \in DOMAIN x.v |-> Norm(x.v[i])])
    ELSE IF x.t = "map" THEN VMap([k \in DOMAIN x.v |-> Norm(x.v[k])])
    ELSE x
PyEq(x, y) == Norm(x) = Norm(y)

\* the value a path segment stands for when used as a subscript or in `in`
KeyOf(seg) == IF seg.k = "idx" THEN IntKey(seg.i) ELSE seg.s
SegEqualsValue(seg, x) ==
    IF seg.k = "idx" THEN PyEq(x, VInt(seg.i))
    ELSE x.t = "str" /\ Cat(x.v) = seg.s

\* len(c)
PyLen(c) ==
    IF c.t \in {"list", "str"} THEN Ok(Len(c.v))
    ELSE IF c.t = "map" THEN Ok(Cardinality(DOMAIN c.v))
    ELSE Raise("TypeError")

\* seg in c.  On a str container the substring test is followed, on both of
\* its outcomes, by a subscript with a str that raises TypeError at every use
\* below, so its outcome is reported as FALSE.
PyContains(c, seg) ==
    IF c.t = "map" THEN Ok(KeyOf(seg) \in DOMAIN c.v)
    ELSE IF c.t = "list" THEN Ok(\E i \in DOMAIN c.v : SegEqualsValue(seg, c.v[i]))
    ELSE IF c.t = "str" THEN (IF seg.k = "name" THEN Ok(FALSE) ELSE Raise("TypeError"))
    ELSE Raise("TypeError")

\* c[seg]
PyGetItem(c, seg) ==
    IF c.t = "map" THEN
        IF KeyOf(seg) \in DOMAIN c.v THEN Ok(c.v[KeyOf(seg)]) ELSE Raise("KeyError")
    ELSE IF c.t = "list" THEN
        IF seg.k # "idx" THEN Raise("TypeError")
        ELSE IF InRange(c.v, seg.i) THEN Ok(At(c.v, seg.i)) ELSE Raise("IndexError")
    ELSE IF c.t = "str" THEN
        IF seg.k # "idx" THEN Raise("TypeError")
        ELSE IF InRange(c.v, seg.i) THEN Ok(VStr(<<At(c.v, seg.i)>>)) ELSE Raise("IndexError")
    ELSE Raise("TypeError")

\* c[seg] = x, giving the container after the assignment
PySetItem(c, seg, x) ==
    IF c.t = "map" THEN Ok(DictPut(c, KeyOf(seg), x))
    ELSE IF c.t = "list" THEN
        IF seg.k # "idx" THEN Raise("TypeError")
        ELSE IF InRange(c.v, seg.i) THEN Ok(VList(SetAt(c.v, seg.i, x))) ELSE Raise("IndexError")
    ELSE Raise("TypeError")

\* while len(c) <= n: c.append(x)
PyPadTo(c, n, x) ==
    IF PyLen(c).err # "" THEN PyLen(c)
    ELSE IF PyLen(c).v > n THEN Ok(c)
    ELSE IF c.t = "list" THEN Ok(VList(Pad(c.v, n + 1, x)))
    ELSE Raise("AttributeError")

---------------------------------------------------------------------------
(* Path engine: ExpressionEvaluator.get_value / set_value *)

RECURSIVE get_value(_, _)
RECURSIVE get_array_values(_, _)

\* the loop of get_value over the parsed segments
RECURSIVE get_walk(_, _, _)
get_walk(segments, i, current) ==
    IF i > Len(segments) THEN current
    ELSE IF IsNull(current) THEN VNull
    ELSE LET segment == segments[i] IN
        IF segment.k = "idx" THEN
            IF IsList(current) /\ InRange(current.v, segment.i)
            THEN get_walk(segments, i + 1, At(current.v, segment.i))
            ELSE VNull
        ELSE IF segment = Star THEN
            IF IsList(current) THEN current ELSE VNull
        ELSE IF IsMap(current) THEN get_walk(segments, i + 1, DictGet(current, segment.s))
        ELSE VNull

\* ExpressionEvaluator.get_value(path, data), data given.  The regex branch
\* for an embedded index ("items[0]" left inside one segment) is not
\* reachable: _parse_path ends the current segment at every "[".
get_value(p0, d) ==
    IF p0 = <<>> THEN d
    ELSE LET p == IF Head(p0) = "." THEN Tail(p0) ELSE p0 IN
        IF HasStar(p) THEN get_array_values(p, d)
        ELSE get_walk(parse_path(p), 1, d)

\* ExpressionEvaluator._get_array_values
get_array_values(p, d) ==
    LET k == StarAt(p, 1)
        array_path == SubSeq(p, 1, k - 1)
        suffix == LStripDot(SubSeq(p, k + 3, Len(p)))
        array == get_value(array_path, d)
    IN  IF ~IsList(array) THEN EmptyList
        ELSE IF suffix = <<>> THEN array
        ELSE VList([i \in DOMAIN array.v |->
                IF IsMap(array.v[i]) THEN get_value(suffix, array.v[i]) ELSE array.v[i]])

\* the non-wildcard part of set_value from segment i on: the container
\* `current` after the write, or the exception
RECURSIVE set_steps(_, _, _, _)
set_steps(current, segments, i, value) ==
    LET segment == segments[i] IN
    IF i = Len(segments) THEN
        IF segment.k = "idx" THEN
            LET padded == PyPadTo(current, segment.i, VNull) IN
            IF padded.err # "" THEN padded ELSE PySetItem(padded.v, segment, value)
        ELSE PySetItem(current, segment, value)
    ELSE IF segment.k = "idx" THEN
        LET padded == PyPadTo(current, segment.i, EmptyMap)
            item == PyGetItem(padded.v, segment)
            child == IF IsNull(item.v) THEN EmptyMap ELSE item.v
            rec == set_steps(child, segments, i + 1, value)
        IN  IF padded.err # "" THEN padded
            ELSE IF item.err # "" THEN item
            ELSE IF rec.err # "" THEN rec
            ELSE PySetItem(padded.v, segment, rec.v)
    ELSE
        LET has == PyContains(current, segment)
            item == PyGetItem(current, segment)
            fresh == IF segments[i + 1].k = "idx" THEN EmptyList ELSE EmptyMap
            create == ~has.v \/ (item.err = "" /\ IsNull(item.v))
            child == IF create THEN fresh ELSE item.v
            rec == set_steps(child, segments, i + 1, value)
        IN  IF has.err # "" THEN has
            ELSE IF has.v /\ item.err # "" THEN item
            ELSE IF create /\ PySetItem(current, segment, fresh).err # ""
                 THEN PySetItem(current, segment, fresh)
            ELSE IF rec.err # "" THEN rec
            ELSE PySetItem(current, segment, rec.v)


\* first position of the "*" segment (segments.index("*"))
RECURSIVE StarIndex(_, _)
StarIndex(segments, i) ==
    IF i > Len(segments) THEN 0
    ELSE IF segments[i] = Star THEN i ELSE StarIndex(segments, i + 1)

\* _set_array_value: the nested write of one value below one array element
\* (for seg in after[:-1]: ...; target[after[-1]] = val)
RECURSIVE set_after(_, _, _, _)
set_after(target, after, j, v) ==
    IF j = Len(after) THEN PySetItem(target, after[j], v)
    ELSE
        LET has == PyContains(target, after[j])
            t1 == IF has.v THEN Ok(target) ELSE PySetItem(target, after[j], EmptyMap)
            child == PyGetItem(t1.v, after[j])
            rec == set_after(child.v, after, j + 1, v)
        IN  IF has.err # "" THEN has
            ELSE IF t1.err # "" THEN t1
            ELSE IF child.err # "" THEN child
            ELSE IF rec.err # "" THEN rec
            ELSE PySetItem(t1.v, after[j], rec.v)

\* _set_array_value: the new element built for a single (non-list) value
RECURSIVE new_item(_, _, _)
new_item(after, j, v) ==
    IF j = Len(after) THEN Dict1(KeyOf(after[j]), v)
    ELSE Dict1(KeyOf(after[j]), new_item(after, j + 1, v))

\* _set_array_value: the loop `for i, val in enumerate(value)`
RECURSIVE set_each(_, _, _, _)
set_each(current, value, after, i) ==
    IF i > Len(value) THEN Ok(VList(current))
    ELSE IF after = <<>> THEN set_each([current EXCEPT ![i] = value[i]], value, after, i + 1)
    ELSE
        LET target == IF IsMap(current[i]) THEN current[i] ELSE EmptyMap
            w == set_after(target, after, 1, value[i])
        IN  IF w.err # "" THEN w
            ELSE set_each([current EXCEPT ![i] = w.v], value, after, i + 1)

\* _set_array_value: what happens at the array container itself
set_at_array(current, value, after) ==
    IF ~IsList(current) THEN Ok(current)
    ELSE IF IsList(value) THEN
        set_each(Pad(current.v, Len(value.v), EmptyMap), value.v, after, 1)
    ELSE IF after # <<>> THEN Ok(VList(Append(current.v, new_item(after, 1, value))))
    ELSE Ok(VList(Append(current.v, value)))

\* _set_array_value: the walk over the segments before the wildcard
RECURSIVE set_before(_, _, _, _, _)
set_before(current, before, i, value, after) ==
    IF i > Len(before) THEN set_at_array(current, value, after)
    ELSE
        LET has == PyContains(current, before[i])
            c1 == IF has.v THEN Ok(current) ELSE PySetItem(current, before[i], EmptyList)
            child == PyGetItem(c1.v, before[i])
            rec == set_before(child.v, before, i + 1, value, after)
        IN  IF has.err # "" THEN has
            ELSE IF c1.err # "" THEN c1
            ELSE IF child.err # "" THEN child
            ELSE IF rec.err # "" THEN rec
            ELSE PySetItem(c1.v, before[i], rec.v)

\* ExpressionEvaluator._set_array_value
set_array_value(segments, value, d) ==
    LET star_idx == StarIndex(segments, 1)
        before == SubSeq(segments, 1, star_idx - 1)
        after == SubSeq(segments, star_idx + 1, Len(segments))
    IN set_before(d, before, 1, value, after)

\* ExpressionEvaluator.set_value(path, value, data): the dict after the call
set_value(p, value, d) ==
    LET segments == parse_path(p) IN
    IF StarIndex(segments, 1) # 0 THEN set_array_value(segments, value, d)
    ELSE IF segments = <<>> THEN Raise("IndexError")
    ELSE set_steps(d, segments, 1, value)

---------------------------------------------------------------------------
(* Paths as the parser builds them *)

\* SourcePath.__str__: ".".join(segments), "?" appended when optional
\* (array_access is always None: _parse_path never sets it)
SourcePathStr(sp) ==
    JoinWith(sp.segments, <<".">>) \o (IF sp.is_optional THEN <<"?">> ELSE <<>>)

\* TargetPath.__str__
TargetPathStr(tp) == JoinWith(tp.segments, <<".">>)


---------------------------------------------------------------------------
(* Python str operations *)

LowerLetters == <<"a", "b", "c", "d", "e", "f", "g", "h", "i", "j", "k", "l", "m",
                  "n", "o", "p", "q", "r", "s", "t", "u", "v", "w", "x", "y", "z">>
UpperLetters == <<"A", "B", "C", "D", "E", "F", "G", "H", "I", "J", "K", "L", "M",
                  "N", "O", "P", "Q", "R", "S", "T", "U", "V", "W", "X", "Y", "Z">>
Whitespace == {" ", "\t", "\n"}

\* a character for which str.isdigit() is true and int() raises ValueError
\* (SUPERSCRIPT TWO, U+00B2), written as one atom
SuperTwo == "sup2"

\* str.isdigit(), str.isalpha(), "isalnum() or == '_'" (a regex's \w) on one
\* character
IsDigitChar(c) == IsDigit(c) \/ c = SuperTwo
IsAlphaChar(c) ==
    \/ \E i \in DOMAIN LowerLetters : LowerLetters[i] = c
    \/ \E i \in DOMAIN UpperLetters : UpperLetters[i] = c
IsWordChar(c) == IsAlphaChar(c) \/ IsDigitChar(c) \/ c = "_"

\* str.lower()
LowerChar(c) ==
    IF \E i \in DOMAIN UpperLetters : UpperLetters[i] = c
    THEN LowerLetters[CHOOSE i \in DOMAIN UpperLetters : UpperLetters[i] = c]
    ELSE c
StrLower(cs) == [i \in DOMAIN cs |-> LowerChar(cs[i])]

\* last index of c in s, 0 if absent: what rsplit(c, 1) cuts at
RECURSIVE LastIndexOf(_, _, _)
LastIndexOf(s, c, i) ==
    IF i = 0 THEN 0 ELSE IF s[i] = c THEN i ELSE LastIndexOf(s, c, i - 1)

\* str.upper(), one character
UpperChar(c) ==
    IF \E i \in DOMAIN LowerLetters : LowerLetters[i] = c
    THEN UpperLetters[CHOOSE i \in DOMAIN LowerLetters : LowerLetters[i] = c]
    ELSE c
StrUpper(cs) == [i \in DOMAIN cs |-> UpperChar(cs[i])]

\* str.strip()
RECURSIVE LStrip(_)
LStrip(cs) == IF cs # <<>> /\ Head(cs) \in Whitespace THEN LStrip(Tail(cs)) ELSE cs
RECURSIVE RStrip(_)
RStrip(cs) ==
    IF cs # <<>> /\ cs[Len(cs)] \in Whitespace THEN RStrip(SubSeq(cs, 1, Len(cs) - 1)) ELSE cs
StrStrip(cs) == RStrip(LStrip(cs))

---------------------------------------------------------------------------
(* Python float: the fraction num/den in lowest terms with den > 0.  The    *)
(* floats of this model are integers and short decimals, for which float    *)
(* arithmetic is exact.                                                     *)

RECURSIVE Gcd(_, _)
Gcd(a, b) == IF b = 0 THEN a ELSE Gcd(b, a % b)
VFloat(num, den) ==
    LET g == Gcd(IF num < 0 THEN 0 - num ELSE num, den)
    IN  [t |-> "float", num |-> num \div g, den |-> den \div g]
RECURSIVE Pow10(_)
Pow10(n) == IF n = 0 THEN 1 ELSE 10 * Pow10(n - 1)
IsFloat(x) == x.t = "float"

\* float(s) for a str: an optional sign, digits, optionally "." and digits
\* (the exponent, "inf", "nan" and "_" forms are not written by this model)
FloatOfStr(cs) ==
    LET signed == cs # <<>> /\ Head(cs) \in {"-", "+"}
        body == IF signed THEN Tail(cs) ELSE cs
        dot == IndexFrom(body, ".", 1)
        whole == IF dot = 0 THEN body ELSE SubSeq(body, 1, dot - 1)
        frac == IF dot = 0 THEN <<>> ELSE SubSeq(body, dot + 1, Len(body))
        digits(ds) == \A i \in 1..Len(ds) : IsDigit(ds[i])
        n == NatOf(whole \o frac, 0)
    IN  IF ~digits(whole) \/ ~digits(frac) \/ whole \o frac = <<>> THEN Raise("ValueError")
        ELSE Ok(VFloat(IF signed /\ Head(cs) = "-" THEN 0 - n ELSE n, Pow10(Len(frac))))

\* float(x)
ToFloat(x) ==
    IF x.t = "int" THEN Ok(VFloat(x.v, 1))
    ELSE IF x.t = "bool" THEN Ok(VFloat(IF x.v THEN 1 ELSE 0, 1))
    ELSE IF x.t = "float" THEN Ok(x)
    ELSE IF x.t = "str" THEN FloatOfStr(StrStrip(x.v))
    ELSE Raise("TypeError")

\* operator.mul / truediv / add / sub on two floats
FloatOp(op, a, b) ==
    IF op = "*" THEN Ok(VFloat(a.num * b.num, a.den * b.den))
    ELSE IF op = "+" THEN Ok(VFloat(a.num * b.den + b.num * a.den, a.den * b.den))
    ELSE IF op = "-" THEN Ok(VFloat(a.num * b.den - b.num * a.den, a.den * b.den))
    ELSE IF b.num = 0 THEN Raise("ZeroDivisionError")
    ELSE IF b.num < 0 THEN Ok(VFloat(0 - a.num * b.den, a.den * (0 - b.num)))
    ELSE Ok(VFloat(a.num * b.den, a.den * b.num))

\* str(x) for a float with at most MaxPlaces decimal places
MaxPlaces == 6
RECURSIVE DecimalPlaces(_, _)
DecimalPlaces(den, k) ==
    IF Pow10(k) % den = 0 \/ k >= MaxPlaces THEN k ELSE DecimalPlaces(den, k + 1)
FloatStr(x) ==
    LET k == DecimalPlaces(x.den, 1)
        scaled == ((IF x.num < 0 THEN 0 - x.num ELSE x.num) * Pow10(k)) \div x.den
        fd == IntStr(scaled % Pow10(k))
    IN  (IF x.num < 0 THEN <<"-">> ELSE <<>>) \o IntStr(scaled \div Pow10(k)) \o <<".">>
        \o [i \in 1..(k - Len(fd)) |-> "0"] \o fd

\* str(x) and repr(x).  A dict's entries are listed in insertion order by
\* Python; the model keeps no insertion order and lists them in one fixed
\* order.
\* the characters of a dict key (keys are TLA+ strings; the one key of more
\* than one character that this model prints is spelled out)
KeyChars(k) == IF k = "b?" THEN <<"b", "?">> ELSE <<k>>
RECURSIVE PyStr(_)
RECURSIVE PyRepr(_)
RECURSIVE ReprItems(_)
RECURSIVE ReprEntries(_, _)
ReprItems(xs) ==
    IF xs = <<>> THEN <<>>
    ELSE IF Len(xs) = 1 THEN PyRepr(xs[1])
    ELSE PyRepr(xs[1]) \o <<",", " ">> \o ReprItems(Tail(xs))
ReprEntries(f, ks) ==
    IF ks = {} THEN <<>>
    ELSE LET k == CHOOSE kk \in ks : TRUE
             one == <<"'">> \o KeyChars(k) \o <<"'", ":", " ">> \o PyRepr(f[k])
         IN IF ks = {k} THEN one ELSE one \o <<",", " ">> \o ReprEntries(f, ks \ {k})
PyRepr(x) ==
    IF x.t = "str" THEN <<"'">> \o x.v \o <<"'">> ELSE PyStr(x)
PyStr(x) ==
    IF x.t = "null" THEN <<"N", "o", "n", "e">>
    ELSE IF x.t = "bool" THEN
        (IF x.v THEN <<"T", "r", "u", "e">> ELSE <<"F", "a", "l", "s", "e">>)
    ELSE IF x.t = "int" THEN IntStr(x.v)
    ELSE IF x.t = "float" THEN FloatStr(x)
    ELSE IF x.t = "str" THEN x.v
    ELSE IF x.t = "list" THEN <<"[">> \o ReprItems(x.v) \o <<"]">>
    ELSE <<"{">> \o ReprEntries(x.v, DOMAIN x.v) \o <<"}">>

\* bool(x)
Truthy(x) ==
    IF x.t = "null" THEN FALSE
    ELSE IF x.t = "bool" THEN x.v
    ELSE IF x.t = "int" THEN x.v # 0
    ELSE IF x.t = "float" THEN x.num # 0
    ELSE IF x.t = "map" THEN DOMAIN x.v # {}
    ELSE x.v # <<>>

\* hash(x) succeeds: what a dict lookup or `in` on a dict needs
Hashable(x) == x.t \notin {"list", "map"}

\* the dict key a hashable value selects (str keys only are ever stored in a
\* lookup table: _parse_inline_dict stores str(key), json objects have str keys)
ValueKey(x) == IF x.t = "str" THEN Cat(x.v) ELSE "#" \o x.t \o ":" \o Cat(PyStr(Norm(x)))

---------------------------------------------------------------------------
(* Builtin transform library: BuiltinFunctions *)

\* the entries of the get_function table that the model carries
BuiltinNames == {"trim", "uppercase", "prefix", "default", "join", "count", "first",
                 "required", "to_string", "to_bool"}

\* the strs BuiltinFunctions.to_bool takes for true
TrueWords == {<<"t", "r", "u", "e">>, <<"y", "e", "s">>, <<"y">>, <<"1">>, <<"o", "n">>}

\* str(v) for v in value
StrEach(xs) == [i \in DOMAIN xs |-> PyStr(xs[i])]

\* func(value, *args) for BuiltinFunctions.get_function(name); a call with
\* the wrong number of arguments raises TypeError
Builtin(name, value, args) ==
    IF name = "trim" THEN
        IF Len(args) # 0 THEN Raise("TypeError")
        ELSE Ok(IF IsNull(value) THEN EmptyStr ELSE VStr(StrStrip(PyStr(value))))
    ELSE IF name = "uppercase" THEN
        IF Len(args) # 0 THEN Raise("TypeError")
        ELSE Ok(IF IsNull(value) THEN EmptyStr ELSE VStr(StrUpper(PyStr(value))))
    ELSE IF name = "to_string" THEN
        IF Len(args) # 0 THEN Raise("TypeError")
        ELSE Ok(IF IsNull(value) THEN EmptyStr ELSE VStr(PyStr(value)))
    ELSE IF name = "prefix" THEN
        IF Len(args) # 1 THEN Raise("TypeError")
        ELSE Ok(IF IsNull(value) THEN args[1] ELSE VStr(PyStr(args[1]) \o PyStr(value)))
    ELSE IF name = "default" THEN
        IF Len(args) # 1 THEN Raise("TypeError")
        ELSE Ok(IF IsNull(value) THEN args[1] ELSE value)
    ELSE IF name = "join" THEN
        IF Len(args) > 1 THEN Raise("TypeError")
        ELSE LET delimiter == IF Len(args) = 1 THEN args[1] ELSE VStr(<<",">>) IN
            IF IsNull(value) THEN Ok(EmptyStr)
            ELSE IF IsList(value) THEN
                IF IsStr(delimiter) THEN Ok(VStr(JoinWith(StrEach(value.v), delimiter.v)))
                ELSE Raise("AttributeError")
            ELSE Ok(VStr(PyStr(value)))
    ELSE IF name = "count" THEN
        IF Len(args) # 0 THEN Raise("TypeError")
        ELSE Ok(IF IsList(value) THEN VInt(Len(value.v))
                ELSE IF IsNull(value) THEN VInt(0) ELSE VInt(1))
    ELSE IF name = "first" THEN
        IF Len(args) # 0 THEN Raise("TypeError")
        ELSE Ok(IF IsList(value) /\ value.v # <<>> THEN value.v[1] ELSE VNull)
    ELSE IF name = "required" THEN
        IF Len(args) # 0 THEN Raise("TypeError")
        ELSE IF IsNull(value) THEN Raise("ValueError") ELSE Ok(value)
    ELSE IF name = "to_bool" THEN
        IF Len(args) # 0 THEN Raise("TypeError")
        ELSE Ok(VBool(IF IsNull(value) THEN FALSE
                      ELSE IF value.t = "bool" THEN value.v
                      ELSE IF IsStr(value) THEN StrLower(value.v) \in TrueWords
                      ELSE Truthy(value)))
    ELSE Raise("TypeError")


---------------------------------------------------------------------------
(* External functions *)

\* a registered callable, by what a call of it does
FnId == [callable |-> TRUE, beh |-> "id"]        \* returns its first argument
FnOne == [callable |-> TRUE, beh |-> "one"]      \* returns 1
FnRaise == [callable |-> TRUE, beh |-> "raise"]  \* raises
NotCallable == [callable |-> FALSE, beh |-> "none"]

\* the exceptions that wrap a failed call: each names the function
ExternalFunctionError(name) == "ExternalFunctionError: " \o name
FunctionRegistryError(name) == "FunctionRegistryError: " \o name
TransformError(name) == "TransformError: " \o name

\* func(*args)
CallFn(f, args) ==
    IF f.beh = "raise" THEN Raise("Exception")
    ELSE IF f.beh = "one" THEN Ok(VInt(1))
    ELSE IF args = <<>> THEN Raise("TypeError")
    ELSE Ok(args[1])

---------------------------------------------------------------------------
(* ExpressionEvaluator.apply_transform *)

Transform(name, args) == [name |-> name, args |-> args, is_alias |-> FALSE]
AliasRef(name, args) == [name |-> name, args |-> args, is_alias |-> TRUE]
AliasDefinition(name, parameters, transforms) ==
    [name |-> name, parameters |-> parameters, transforms |-> transforms]

\* the evaluator's fields that a transform call reads:
\*   aliases: name -> AliasDefinition, lookups: name -> table,
\*   external_functions: name -> callable
Evaluator(aliases, lookups, external_functions) ==
    [aliases |-> aliases, lookups |-> lookups, external_functions |-> external_functions]

\* outcome of a transform call: the value, the evaluator's _when_state
\* ("matched") after it, and the exception if one was raised
TOk(x, ws) == [err |-> "", v |-> x, ws |-> ws]
TRaise(e, ws) == [err |-> e, v |-> VNull, ws |-> ws]

\* the table name a lookup argument names
LookupName(lookup_ref) ==
    IF IsStr(lookup_ref) /\ lookup_ref.v # <<>> /\ Head(lookup_ref.v) = "@"
    THEN Cat(Tail(lookup_ref.v))
    ELSE Cat(PyStr(lookup_ref))

\* the lookup branch of apply_transform
apply_lookup(value, args, ev, ws) ==
    IF args = <<>> THEN TOk(value, ws)
    ELSE LET lookup_name == LookupName(args[1])
             lookup_table == IF lookup_name \in DOMAIN ev.lookups
                             THEN ev.lookups[lookup_name] ELSE EmptyMap
         IN IF ~IsMap(lookup_table) THEN TOk(value, ws)
            ELSE IF ~Hashable(value) THEN TRaise("TypeError", ws)
            ELSE IF ValueKey(value) \in DOMAIN lookup_table.v
                 THEN TOk(lookup_table.v[ValueKey(value)], ws)
            ELSE TOk(value, ws)

RECURSIVE apply_transform(_, _, _, _)
RECURSIVE apply_chain(_, _, _, _, _)

\* for t in transforms: value = apply_transform(value, t.name, t.args, t.is_alias)
apply_chain(value, transforms, i, ev, ws) ==
    IF i > Len(transforms) THEN TOk(value, ws)
    ELSE LET rest(r) ==
                 IF r.err # "" THEN r ELSE apply_chain(r.v, transforms, i + 1, ev, r.ws)
         IN rest(apply_transform(value, transforms[i], ev, ws))

\* ExpressionEvaluator.apply_transform(value, t.name, t.args, t.is_alias)
apply_transform(value, t, ev, ws) ==
    IF t.is_alias THEN
        IF t.name \in DOMAIN ev.aliases
        THEN apply_chain(value, ev.aliases[t.name].transforms, 1, ev, ws)
        ELSE TOk(value, ws)
    ELSE IF t.name = "lookup" THEN apply_lookup(value, t.args, ev, ws)
    ELSE IF t.name = "when" THEN
        IF Len(t.args) >= 2 /\ PyEq(value, t.args[1]) THEN TOk(t.args[2], TRUE)
        ELSE TOk(value, ws)
    ELSE IF t.name = "else" THEN
        IF ~ws THEN TOk(IF t.args # <<>> THEN t.args[1] ELSE value, ws)
        ELSE TOk(value, FALSE)
    ELSE IF t.name \in DOMAIN ev.external_functions THEN
        LET called(r) ==
                IF r.err # "" THEN TRaise(ExternalFunctionError(t.name), ws)
                ELSE TOk(r.v, ws)
        IN called(CallFn(ev.external_functions[t.name], <<value>> \o t.args))
    ELSE IF t.name \in BuiltinNames THEN
        LET called(r) == IF r.err # "" THEN TOk(value, ws) ELSE TOk(r.v, ws)
        IN called(Builtin(t.name, value, t.args))
    ELSE TOk(value, ws)


---------------------------------------------------------------------------
(* The AST: parser.py dataclasses *)

SourcePath(segments, is_optional) ==
    [type |-> "path", segments |-> segments, is_optional |-> is_optional]
ConstantValue(value) == [type |-> "const", value |-> value]
\* ComputeExpression(expression, type): compute_type is its field "type"
ComputeExpression(expression, compute_type) ==
    [type |-> "compute", expression |-> expression, compute_type |-> compute_type]
MergeExpression(parts, operator) == [type |-> "merge", parts |-> parts, operator |-> operator]
StrPart(cs) == [type |-> "str", value |-> cs]
TargetPath(segments) == [type |-> "path", segments |-> segments]
SkipTarget == [type |-> "skip"]
Mapping(source, target, transforms) ==
    [kind |-> "mapping", source |-> source, target |-> target, transforms |-> transforms]
Condition(field, operator, value) == [field |-> field, operator |-> operator, value |-> value]
\* ConditionalBlock(condition, mappings); an @else block has condition None
WhenBlock(condition, mappings) ==
    [kind |-> "cond", is_else |-> FALSE, condition |-> condition, mappings |-> mappings]
ElseBlock(mappings) ==
    [kind |-> "cond", is_else |-> TRUE, condition |-> VNull, mappings |-> mappings]
NestedBlock(mappings) == [kind |-> "nested", mappings |-> mappings]
InlineLookup(table) == [kind |-> "inline", table |-> table]
MappingFile(config, aliases, lookups, mappings) ==
    [config |-> config, aliases |-> aliases, lookups |-> lookups, mappings |-> mappings]

\* config.get(key)
ConfigGet(config, key) == IF key \in DOMAIN config THEN config[key] ELSE VNull

---------------------------------------------------------------------------
(* The interpreter: SchemaMapTransformer *)

\* what open(path, encoding='utf-8') and json.load find at the path of a
\* lookup table: whether the bytes decode, and the parsed document or the
\* JSONDecodeError; a path outside the domain names no file
LookupFiles ==
    ("codes.json" :> [decodes |-> TRUE,
                      json |-> Ok(Dict2("A", VStr(<<"ACTIVE">>), "n", VInt(1)))])
    @@ ("broken.json" :> [decodes |-> TRUE, json |-> Raise("JSONDecodeError")])
    @@ ("latin1.json" :> [decodes |-> FALSE, json |-> Raise("JSONDecodeError")])

\* with open(lookup_def.source, 'r', encoding='utf-8') as f: json.load(f)
load_lookup_file(file_path) ==
    IF file_path \notin DOMAIN LookupFiles THEN Raise("FileNotFoundError")
    ELSE IF ~LookupFiles[file_path].decodes THEN Raise("UnicodeDecodeError")
    ELSE LookupFiles[file_path].json

\* SchemaMapTransformer._load_lookups: Ok(name -> table), or the exception
\* the except clause does not name
load_lookups(lookup_defs) ==
    LET caught(r) ==
            IF r.err \in {"FileNotFoundError", "JSONDecodeError"} THEN Ok(EmptyMap) ELSE r
        loaded(name) ==
            IF lookup_defs[name].kind = "inline" THEN Ok(lookup_defs[name].table)
            ELSE caught(load_lookup_file(Cat(lookup_defs[name].path)))
        failing == {name \in DOMAIN lookup_defs : loaded(name).err # ""}
    IN  IF failing # {} THEN Raise(loaded(CHOOSE name \in failing : TRUE).err)
        ELSE Ok([name \in DOMAIN lookup_defs |-> loaded(name).v])

\* SchemaMapTransformer.__init__: the evaluator built for a mapping file and
\* the function registry's _functions
NewEvaluator(mf, fns) == Evaluator(mf.aliases, load_lookups(mf.lookups).v, fns)

\* character order (code points) for str comparison
CodeOrder == <<" ">> \o Digits \o UpperLetters \o LowerLetters
CharRank(c) ==
    IF \E i \in DOMAIN CodeOrder : CodeOrder[i] = c
    THEN CHOOSE i \in DOMAIN CodeOrder : CodeOrder[i] = c ELSE 0
RECURSIVE StrLess(_, _)
StrLess(a, b) ==
    IF b = <<>> THEN FALSE
    ELSE IF a = <<>> THEN TRUE
    ELSE IF Head(a) = Head(b) THEN StrLess(Tail(a), Tail(b))
    ELSE CharRank(Head(a)) < CharRank(Head(b))

IsNumber(x) == x.t \in {"int", "bool", "float"}
\* a number as a fraction
Num(x) == IF x.t = "float" THEN x ELSE ToFloat(x).v
\* x < y; values of types that Python does not order raise TypeError
\* (list literals are not compared by the mapping files of this model)
PyLess(x, y) ==
    IF IsNumber(x) /\ IsNumber(y)
    THEN [err |-> "", b |-> Num(x).num * Num(y).den < Num(y).num * Num(x).den]
    ELSE IF IsStr(x) /\ IsStr(y) THEN [err |-> "", b |-> StrLess(x.v, y.v)]
    ELSE [err |-> "TypeError", b |-> FALSE]

\* field_value <op> target_value, as evaluate_condition and the generated
\* "if" statement both write it
compare(op, field_value, target_value) ==
    LET not(r) == [err |-> r.err, b |-> ~r.b /\ r.err = ""]
        equal(b) == [err |-> "", b |-> IF op = "==" THEN b ELSE ~b]
    IN  IF op \in {"==", "!="} THEN equal(PyEq(field_value, target_value))
        ELSE IF op \in {">", "<="} THEN
            (IF op = ">" THEN PyLess(target_value, field_value)
             ELSE not(PyLess(target_value, field_value)))
        ELSE IF op \in {"<", ">="} THEN
            (IF op = "<" THEN PyLess(field_value, target_value)
             ELSE not(PyLess(field_value, target_value)))
        ELSE [err |-> "", b |-> FALSE]

\* ExpressionEvaluator.evaluate_condition
evaluate_condition(condition, d) ==
    compare(condition.operator, get_value(condition.field, d), condition.value)

\* SchemaMapTransformer._evaluate_merge
RECURSIVE merge_concat(_, _, _)
merge_concat(parts, i, d) ==
    IF i > Len(parts) THEN <<>>
    ELSE LET part == parts[i]
             text(x) == IF IsNull(x) THEN <<>> ELSE PyStr(x)
         IN (IF part.type = "str" THEN part.value
             ELSE text(get_value(SourcePathStr(part), d)))
            \o merge_concat(parts, i + 1, d)
RECURSIVE merge_coalesce(_, _, _)
merge_coalesce(parts, i, d) ==
    IF i > Len(parts) THEN VNull
    ELSE LET part == parts[i]
             first(x) == IF ~IsNull(x) THEN x ELSE merge_coalesce(parts, i + 1, d)
         IN IF part.type = "str" THEN VStr(part.value)
            ELSE first(get_value(SourcePathStr(part), d))
evaluate_merge(merge, d) ==
    IF merge.operator = "+" THEN VStr(merge_concat(merge.parts, 1, d))
    ELSE IF merge.operator = "??" THEN merge_coalesce(merge.parts, 1, d)
    ELSE VNull

\* SchemaMapTransformer._get_source_value
get_source_value(source, d) ==
    IF source.type = "const" THEN source.value
    ELSE IF source.type = "merge" THEN evaluate_merge(source, d)
    ELSE IF source.type = "path" THEN get_value(SourcePathStr(source), d)
    ELSE VNull

---------------------------------------------------------------------------
(* ExpressionEvaluator.evaluate_expression and the @compute / @call sources *)

\* first index at or after i of s that holds no word character
RECURSIVE WordEnd(_, _)
WordEnd(s, i) == IF i <= Len(s) /\ IsWordChar(s[i]) THEN WordEnd(s, i + 1) ELSE i

\* re.match(r"(\w+)\((.+)\)", expr) on an expr of one line: the two groups,
\* the second one stripped
CallPattern(expr) ==
    LET open == WordEnd(expr, 1)
        close == LastIndexOf(expr, ")", Len(expr))
    IN  IF open > 1 /\ open <= Len(expr) /\ expr[open] = "(" /\ close > open + 1
        THEN [ok |-> TRUE, func_name |-> Cat(SubSeq(expr, 1, open - 1)),
              args_str |-> StrStrip(SubSeq(expr, open + 1, close - 1))]
        ELSE [ok |-> FALSE, func_name |-> "", args_str |-> <<>>]

Aggregations == {"sum", "count", "avg", "min", "max"}
ArithmeticOps == <<"*", "/", "+", "-">>

\* sum(float(v) for v in values if v is not None): 0 for no element
RECURSIVE SumFloats(_, _, _)
SumFloats(values, i, acc) ==
    IF i > Len(values) THEN Ok(acc)
    ELSE IF IsNull(values[i]) THEN SumFloats(values, i + 1, acc)
    ELSE LET added(f) ==
                 IF f.err # "" THEN f
                 ELSE SumFloats(values, i + 1,
                                FloatOp("+", IF acc.t = "int" THEN VFloat(acc.v, 1) ELSE acc,
                                        f.v).v)
         IN  added(ToFloat(values[i]))

\* min / max (v for v in values if v is not None), best the result so far
RECURSIVE Extreme(_, _, _, _)
Extreme(func_name, values, i, best) ==
    IF i > Len(values)
    THEN (IF IsNull(best) THEN Raise("ValueError") ELSE Ok(best))
    ELSE IF IsNull(values[i]) THEN Extreme(func_name, values, i + 1, best)
    ELSE IF IsNull(best) THEN Extreme(func_name, values, i + 1, values[i])
    ELSE LET chosen(less) ==
                 IF less.err # "" THEN Raise(less.err)
                 ELSE Extreme(func_name, values, i + 1, IF less.b THEN values[i] ELSE best)
         IN  chosen(IF func_name = "min" THEN PyLess(values[i], best)
                    ELSE PyLess(best, values[i]))

\* ExpressionEvaluator._evaluate_aggregation
evaluate_aggregation(func_name, args_str, d) ==
    LET over(values) ==
            IF func_name = "sum" THEN
                (IF IsList(values) THEN SumFloats(values.v, 1, VInt(0))
                 ELSE IF Truthy(values) THEN ToFloat(values) ELSE Ok(VInt(0)))
            ELSE IF func_name = "count" THEN
                (IF IsList(values) THEN Ok(VInt(Len(values.v)))
                 ELSE Ok(VInt(IF IsNull(values) THEN 0 ELSE 1)))
            ELSE IF func_name = "avg" THEN
                (IF IsList(values) /\ values.v # <<>>
                 THEN LET mean(total) ==
                              IF total.err # "" THEN total
                              ELSE FloatOp("/", ToFloat(total.v).v, VFloat(Len(values.v), 1))
                      IN  mean(SumFloats(values.v, 1, VInt(0)))
                 ELSE Ok(VInt(0)))
            ELSE IF IsList(values) /\ values.v # <<>>
                 THEN Extreme(func_name, values.v, 1, VNull)
                 ELSE Ok(values)
    IN  over(get_value(args_str, d))

RECURSIVE evaluate_expression(_, _, _)
RECURSIVE function_args(_, _, _, _, _, _, _, _)
RECURSIVE evaluate_arg(_, _, _)
RECURSIVE arithmetic(_, _, _, _)

\* ExpressionEvaluator._evaluate_arg
evaluate_arg(arg0, d, fns) ==
    LET arg == StrStrip(arg0)
        quoted(q) == arg # <<>> /\ Head(arg) = q /\ arg[Len(arg)] = q
        dotted == IndexFrom(arg, ".", 1) # 0
    IN  IF quoted("\"") \/ quoted("'") THEN Ok(VStr(SubSeq(arg, 2, Len(arg) - 1)))
        ELSE IF dotted /\ FloatOfStr(arg).err = "" THEN FloatOfStr(arg)
        ELSE IF ~dotted /\ IsIntStr(arg) THEN Ok(VInt(IntOf(arg)))
        ELSE IF StrLower(arg) = <<"t", "r", "u", "e">> THEN Ok(VBool(TRUE))
        ELSE IF StrLower(arg) = <<"f", "a", "l", "s", "e">> THEN Ok(VBool(FALSE))
        ELSE IF StrLower(arg) \in {<<"n", "u", "l", "l">>, <<"n", "o", "n", "e">>}
             THEN Ok(VNull)
        ELSE IF IndexFrom(arg, "(", 1) # 0 THEN evaluate_expression(arg, d, fns)
        ELSE Ok(get_value(arg, d))

\* ExpressionEvaluator._parse_function_args: the loop over args_str + ",",
\* string_char "" when not in a string; the result's v is the list of args
function_args(s, i, current_arg, paren_depth, string_char, args, d, fns) ==
    IF i > Len(s) THEN Ok(args)
    ELSE LET char == s[i]
             in_string == string_char # ""
             added(a) ==
                 IF a.err # "" THEN a
                 ELSE function_args(s, i + 1, <<>>, paren_depth, string_char,
                                    Append(args, a.v), d, fns)
         IN  IF char \in {"\"", "'"} /\ ~in_string
             THEN function_args(s, i + 1, Append(current_arg, char), paren_depth, char,
                                args, d, fns)
             ELSE IF char = string_char /\ in_string
             THEN function_args(s, i + 1, Append(current_arg, char), paren_depth, "",
                                args, d, fns)
             ELSE IF char = "(" /\ ~in_string
             THEN function_args(s, i + 1, Append(current_arg, char), paren_depth + 1,
                                string_char, args, d, fns)
             ELSE IF char = ")" /\ ~in_string
             THEN function_args(s, i + 1, Append(current_arg, char), paren_depth - 1,
                                string_char, args, d, fns)
             ELSE IF char = "," /\ paren_depth = 0 /\ ~in_string
             THEN (IF StrStrip(current_arg) # <<>>
                   THEN added(evaluate_arg(StrStrip(current_arg), d, fns))
                   ELSE function_args(s, i + 1, <<>>, paren_depth, string_char, args, d, fns))
             ELSE function_args(s, i + 1, Append(current_arg, char), paren_depth,
                                string_char, args, d, fns)
parse_function_args(args_str, d, fns) ==
    function_args(Append(args_str, ","), 1, <<>>, 0, "", <<>>, d, fns)

\* a call that answers a failure with None, as FunctionRegistry.call_safe does
call_external_function_safe(func_name, args_str, d, fns) ==
    LET returned(r) == IF r.err # "" THEN Ok(VNull) ELSE r
        called(args) == IF args.err # "" THEN args
                        ELSE returned(CallFn(fns[func_name], args.v))
    IN  called(parse_function_args(args_str, d, fns))

\* ExpressionEvaluator._call_external_function
call_external_function(func_name, args_str, d, fns) ==
    LET returned(r) == IF r.err # "" THEN Raise(ExternalFunctionError(func_name)) ELSE r
        called(args) == IF args.err # "" THEN args
                        ELSE returned(CallFn(fns[func_name], args.v))
    IN  called(parse_function_args(args_str, d, fns))

\* the arithmetic loop of evaluate_expression from its k-th operator on, and
\* the path read after it
arithmetic(expr, k, d, fns) ==
    IF k > Len(ArithmeticOps) THEN Ok(get_value(expr, d))
    ELSE IF IndexFrom(expr, ArithmeticOps[k], 1) = 0 THEN arithmetic(expr, k + 1, d, fns)
    ELSE LET at == IndexFrom(expr, ArithmeticOps[k], 1)
             tried(r) ==
                 IF r.err \in {"ValueError", "TypeError"} THEN arithmetic(expr, k + 1, d, fns)
                 ELSE r
             floats(fl, fr) ==
                 IF fl.err # "" THEN fl ELSE IF fr.err # "" THEN fr
                 ELSE FloatOp(ArithmeticOps[k], fl.v, fr.v)
             both(left, right) ==
                 IF right.err # "" THEN right
                 ELSE IF IsNull(left.v) \/ IsNull(right.v) THEN arithmetic(expr, k + 1, d, fns)
                 ELSE tried(floats(ToFloat(left.v), ToFloat(right.v)))
             one(left) ==
                 IF left.err # "" THEN left
                 ELSE both(left, evaluate_expression(SubSeq(expr, at + 1, Len(expr)), d, fns))
         IN  one(evaluate_expression(SubSeq(expr, 1, at - 1), d, fns))

\* ExpressionEvaluator.evaluate_expression(expr, data): Ok(value) or the
\* exception; fns is self.external_functions
evaluate_expression(expr0, d, fns) ==
    LET matched(expr, m) ==
            IF m.ok /\ m.func_name \in Aggregations
            THEN evaluate_aggregation(m.func_name, m.args_str, d)
            ELSE IF m.ok /\ m.func_name \in DOMAIN fns
            THEN call_external_function(m.func_name, m.args_str, d, fns)
            ELSE arithmetic(expr, 1, d, fns)
    IN  matched(StrStrip(expr0), CallPattern(StrStrip(expr0)))

\* FunctionRegistry.call(name, *args)
registry_call(name, args, fns) ==
    LET returned(r) == IF r.err # "" THEN Raise(FunctionRegistryError(name)) ELSE r
    IN  IF name \notin DOMAIN fns THEN Raise(FunctionRegistryError(name))
        ELSE returned(CallFn(fns[name], args))

\* SchemaMapTransformer._evaluate_function_call; the registry's _functions is
\* the dict the evaluator holds as external_functions
evaluate_function_call(expr, d, fns) ==
    LET comma == IndexFrom(expr, ",", 1)
        func_name == Cat(StrStrip(IF comma = 0 THEN expr ELSE SubSeq(expr, 1, comma - 1)))
        called(args) == IF args.err # "" THEN args ELSE registry_call(func_name, args.v, fns)
    IN  IF func_name \notin DOMAIN fns THEN Raise(TransformError(func_name))
        ELSE called(IF comma = 0 THEN Ok(<<>>)
                    ELSE parse_function_args(SubSeq(expr, comma + 1, Len(expr)), d, fns))

\* datetime.now().isoformat() + "Z" and str(uuid.uuid4()): a str that the
\* record does not determine, kept as one atom
NowStamp == VStr(<<"<now>">>)
NewUuid == VStr(<<"<uuid>">>)

\* SchemaMapTransformer._evaluate_compute
evaluate_compute(expr, d, fns) ==
    IF expr.compute_type = "now" THEN Ok(NowStamp)
    ELSE IF expr.compute_type = "uuid" THEN Ok(NewUuid)
    ELSE IF expr.compute_type = "call" THEN evaluate_function_call(expr.expression, d, fns)
    ELSE evaluate_expression(expr.expression, d, fns)

\* SchemaMapTransformer._get_source_value with the exception a @compute or
\* @call source may raise
source_value(source, d, fns) ==
    IF source.type = "compute" THEN evaluate_compute(source, d, fns)
    ELSE Ok(get_source_value(source, d))


\* SchemaMapTransformer._apply_transforms over the elements of a list value
RECURSIVE apply_each(_, _, _, _, _, _)
apply_each(xs, i, acc, transforms, ev, ws) ==
    IF i > Len(xs) THEN TOk(VList(acc), ws)
    ELSE LET rest(r) ==
                 IF r.err # "" THEN r
                 ELSE apply_each(xs, i + 1, Append(acc, r.v), transforms, ev, r.ws)
         IN rest(apply_chain(xs[i], transforms, 1, ev, ws))

\* SchemaMapTransformer._apply_transforms / _apply_transforms_single
apply_transforms(value, transforms, ev, ws) ==
    IF transforms = <<>> THEN TOk(value, ws)
    ELSE IF IsList(value) THEN apply_each(value.v, 1, <<>>, transforms, ev, ws)
    ELSE apply_chain(value, transforms, 1, ev, ws)

\* state of one transform call: the target dict so far, the evaluator's
\* _when_state, the exception if one was raised
Run(target, ws) == [err |-> "", target |-> target, ws |-> ws]
Failed(e, st) == [err |-> e, target |-> st.target, ws |-> st.ws]

\* SchemaMapTransformer._apply_mapping
apply_mapping(mapping, d, st, config, ev) ==
    IF mapping.target.type = "skip" THEN st
    ELSE LET stored(tr, w) ==
                 IF w.err # "" THEN Failed(w.err, [st EXCEPT !.ws = tr.ws])
                 ELSE Run(w.v, tr.ws)
             transformed(tr) ==
                 IF tr.err # "" THEN Failed(tr.err, [st EXCEPT !.ws = tr.ws])
                 ELSE stored(tr, set_value(TargetPathStr(mapping.target), tr.v, st.target))
             read(value) ==
                 IF IsNull(value) /\ mapping.source.type = "path" /\ mapping.source.is_optional
                 THEN st
                 ELSE IF IsNull(value) /\ ConfigGet(config, "missing_fields") = VStr(<<"skip">>)
                 THEN st
                 ELSE transformed(apply_transforms(value, mapping.transforms, ev, st.ws))
             sourced(s) == IF s.err # "" THEN Failed(s.err, st) ELSE read(s.v)
         IN sourced(source_value(mapping.source, d, ev.external_functions))

RECURSIVE apply_items(_, _, _, _, _, _)

\* SchemaMapTransformer._apply_conditional
apply_conditional(conditional, d, st, config, ev) ==
    LET decided(c) ==
            IF c.err # "" THEN Failed(c.err, st)
            ELSE IF c.b THEN apply_items(conditional.mappings, 1, d, st, config, ev)
            ELSE st
    IN  decided(IF conditional.is_else THEN [err |-> "", b |-> TRUE]
                ELSE evaluate_condition(conditional.condition, d))

\* SchemaMapTransformer._apply_mapping_item
apply_mapping_item(item, d, st, config, ev) ==
    IF item.kind = "mapping" THEN apply_mapping(item, d, st, config, ev)
    ELSE IF item.kind = "cond" THEN apply_conditional(item, d, st, config, ev)
    ELSE IF item.kind = "nested" THEN apply_items(item.mappings, 1, d, st, config, ev)
    ELSE st

\* for mapping_item in mappings: self._apply_mapping_item(...)
apply_items(items, i, d, st, config, ev) ==
    IF i > Len(items) \/ st.err # "" THEN st
    ELSE apply_items(items, i + 1, d, apply_mapping_item(items[i], d, st, config, ev), config, ev)

\* a null removal that cleans the top-level map only
remove_nulls_shallow(x) ==
    IF IsMap(x) THEN VMap([k \in {kk \in DOMAIN x.v : ~IsNull(x.v[kk])} |-> x.v[k]])
    ELSE x

\* SchemaMapTransformer._remove_nulls
RECURSIVE remove_nulls(_)
remove_nulls(x) ==
    IF IsMap(x) THEN
        VMap([k \in {kk \in DOMAIN x.v : ~IsNull(x.v[kk])} |-> remove_nulls(x.v[k])])
    ELSE IF IsList(x) THEN
        LET keep == SelectSeq(x.v, LAMBDA e : ~IsNull(e))
        IN VList([i \in DOMAIN keep |-> remove_nulls(keep[i])])
    ELSE x

\* SchemaMapTransformer.transform(source_data), for a transformer whose
\* evaluator's _when_state is ws
transform(mf, ev, ws, source_data) ==
    LET finish(st) ==
            IF st.err # "" THEN st
            ELSE IF ConfigGet(mf.config, "null_handling") = VStr(<<"omit">>)
            THEN Run(remove_nulls(st.target), st.ws)
            ELSE st
    IN  finish(apply_items(mf.mappings, 1, source_data, Run(EmptyMap, ws), mf.config, ev))


---------------------------------------------------------------------------
(* The generated transformer: the class text PythonCodeGenerator.generate  *)
(* emits, by what its methods do                                           *)

\* s.replace("?", "")
RECURSIVE DropChar(_, _)
DropChar(cs, c) ==
    IF cs = <<>> THEN <<>>
    ELSE IF Head(cs) = c THEN DropChar(Tail(cs), c)
    ELSE <<Head(cs)>> \o DropChar(Tail(cs), c)

\* s.split(".")
RECURSIVE SplitOn(_, _, _)
SplitOn(cs, c, current) ==
    IF cs = <<>> THEN <<current>>
    ELSE IF Head(cs) = c THEN <<current>> \o SplitOn(Tail(cs), c, <<>>)
    ELSE SplitOn(Tail(cs), c, Append(current, Head(cs)))

HasBracket(segment) == IndexFrom(segment, "[", 1) # 0
\* segment[:segment.index("[")]
BracketKey(segment) == SubSeq(segment, 1, IndexFrom(segment, "[", 1) - 1)
\* segment[segment.index("[")+1:segment.index("]")]
BracketIndex(segment) ==
    SubSeq(segment, IndexFrom(segment, "[", 1) + 1, IndexFrom(segment, "]", 1) - 1)

\* generated _get_value: the loop over path.replace("?", "").split(".")
RECURSIVE gen_get_walk(_, _, _)
gen_get_walk(segments, i, current) ==
    IF i > Len(segments) THEN current
    ELSE IF IsNull(current) THEN VNull
    ELSE LET segment == segments[i] IN
        IF HasBracket(segment) THEN
            LET key == BracketKey(segment)
                idx_str == BracketIndex(segment)
                c1 == IF key = <<>> THEN current
                      ELSE IF IsMap(current) THEN DictGet(current, Cat(key)) ELSE VNull
            IN  IF IsNull(c1) THEN VNull
                ELSE IF ~IsList(c1) THEN gen_get_walk(segments, i + 1, c1)
                ELSE IF idx_str = <<"*">> THEN c1
                ELSE IF ~IsIntStr(idx_str) THEN VNull
                ELSE IF InRange(c1.v, IntOf(idx_str))
                     THEN gen_get_walk(segments, i + 1, At(c1.v, IntOf(idx_str)))
                ELSE gen_get_walk(segments, i + 1, VNull)
        ELSE gen_get_walk(segments, i + 1,
                IF IsMap(current) THEN DictGet(current, Cat(segment)) ELSE VNull)

\* generated _get_value(data, path)
gen_get_value(d, p) ==
    IF p = <<>> \/ IsNull(d) THEN d
    ELSE gen_get_walk(SplitOn(DropChar(p, "?"), ".", <<>>), 1, d)

\* generated _get_array_values(data, path); path.split("[*]") cuts at every "[*]"
gen_get_array_values(d, p) ==
    IF ~HasStar(p) THEN gen_get_value(d, p)
    ELSE LET k == StarAt(p, 1)
             rest == SubSeq(p, k + 3, Len(p))
             part1 == IF HasStar(rest) THEN SubSeq(rest, 1, StarAt(rest, 1) - 1) ELSE rest
             suffix == LStripDot(part1)
             array == gen_get_value(d, SubSeq(p, 1, k - 1))
         IN IF ~IsList(array) THEN EmptyList
            ELSE IF suffix = <<>> THEN array
            ELSE VList([i \in DOMAIN array.v |-> gen_get_value(array.v[i], suffix)])

\* outcome of a write that mutates in place: the container as the call left
\* it, also when it raised
Wrote(x) == [err |-> "", v |-> x]
Broke(e, x) == [err |-> e, v |-> x]

\* generated _set_value: from segment i on
RECURSIVE gen_set_steps(_, _, _, _)
gen_set_steps(current, segments, i, value) ==
    LET segment == segments[i]
        key == SegName(Cat(IF HasBracket(segment) THEN BracketKey(segment) ELSE segment))
        has == PyContains(current, key)
    IN
    IF i < Len(segments) THEN
        LET fresh == IF HasBracket(segment) THEN EmptyList ELSE EmptyMap
            c1 == IF has.v THEN Ok(current) ELSE PySetItem(current, key, fresh)
            child == PyGetItem(c1.v, key)
            rec == gen_set_steps(child.v, segments, i + 1, value)
        IN  IF has.err # "" THEN Broke(has.err, current)
            ELSE IF c1.err # "" THEN Broke(c1.err, current)
            ELSE IF child.err # "" THEN Broke(child.err, c1.v)
            ELSE [err |-> rec.err, v |-> PySetItem(c1.v, key, rec.v).v]
    ELSE IF HasBracket(segment) THEN
        LET c1 == IF has.v THEN Ok(current) ELSE PySetItem(current, key, EmptyList)
            item == PyGetItem(c1.v, key)
        IN  IF has.err # "" THEN Broke(has.err, current)
            ELSE IF c1.err # "" THEN Broke(c1.err, current)
            ELSE IF IsList(value) THEN
                (IF PySetItem(c1.v, key, value).err # ""
                 THEN Broke(PySetItem(c1.v, key, value).err, c1.v)
                 ELSE Wrote(PySetItem(c1.v, key, value).v))
            ELSE IF item.err # "" THEN Broke(item.err, c1.v)
            ELSE IF ~IsList(item.v) THEN Broke("AttributeError", c1.v)
            ELSE Wrote(PySetItem(c1.v, key, VList(Append(item.v.v, value))).v)
    ELSE
        IF PySetItem(current, key, value).err # ""
        THEN Broke(PySetItem(current, key, value).err, current)
        ELSE Wrote(PySetItem(current, key, value).v)

\* generated _set_value(data, path, value)
gen_set_value(d, p, value) == gen_set_steps(d, SplitOn(p, ".", <<>>), 1, value)

\* _generate_lookup_dict: the table literal written into the class text, every
\* value formatted into a str literal; only inline tables are written
gen_lookups(lookup_defs) ==
    [name \in {n \in DOMAIN lookup_defs :
                 lookup_defs[n].kind = "inline" /\ IsMap(lookup_defs[n].table)} |->
        VMap([k \in DOMAIN lookup_defs[name].table.v |->
                VStr(PyStr(lookup_defs[name].table.v[k]))])]

\* generated _lookup(table_name, value): table.get(value, value)
gen_lookup(lookups, table_name, value) ==
    IF ~Hashable(value) THEN Raise("TypeError")
    ELSE IF table_name \in DOMAIN lookups /\ ValueKey(value) \in DOMAIN lookups[table_name].v
    THEN Ok(lookups[table_name].v[ValueKey(value)])
    ELSE Ok(value)


\* _transform_to_code writes one expression text per transform, with the
\* operand spelled _v.  An alias is expanded by textual substitution
\* (inner.replace("_v", code)), so whether the class text is valid Python
\* depends on the shape of the texts:
\*   kind "var"  : the text is _v itself (lookup without a table, when with
\*                 fewer than two arguments, every name not inlined)
\*   kind "call" : self._lookup("name", _v)
\*   kind "cond" : a conditional expression "A if B else C"
\*   tight       : some _v stands in the condition "B" outside parentheses,
\*                 where a conditional expression may not be written
\*   kind "bad"  : a text that is not valid Python
CodeShape(kind, tight) == [kind |-> kind, tight |-> tight]

\* inner.replace("_v", code)
Substitute(inner, code) ==
    IF inner.kind = "bad" \/ code.kind = "bad" THEN CodeShape("bad", FALSE)
    ELSE IF inner.kind = "var" THEN code
    ELSE IF code.kind = "var" THEN inner
    ELSE IF code.kind = "cond" /\ inner.tight THEN CodeShape("bad", FALSE)
    ELSE CodeShape(inner.kind, code.kind = "cond" /\ code.tight)

RECURSIVE transform_to_code(_, _)
RECURSIVE alias_to_code(_, _, _, _)
\* for t in alias_def.transforms.transforms: code = inner.replace("_v", code)
alias_to_code(transforms, i, code, aliases) ==
    IF i > Len(transforms) THEN code
    ELSE alias_to_code(transforms, i + 1,
                       Substitute(transform_to_code(transforms[i], aliases), code), aliases)

\* PythonCodeGenerator._transform_to_code: the shape of the text it returns
transform_to_code(t, aliases) ==
    IF t.is_alias THEN
        IF t.name \in DOMAIN aliases
        THEN alias_to_code(aliases[t.name].transforms, 1, CodeShape("var", FALSE), aliases)
        ELSE CodeShape("var", FALSE)
    ELSE IF t.name \in {"trim", "uppercase", "to_string", "to_bool", "default", "prefix",
                        "first", "count"}
        THEN CodeShape("cond", TRUE)
    ELSE IF t.name = "join" THEN CodeShape("cond", FALSE)
    ELSE IF t.name = "lookup" THEN
        (IF t.args # <<>> THEN CodeShape("call", FALSE) ELSE CodeShape("var", FALSE))
    ELSE IF t.name = "when" THEN
        (IF Len(t.args) >= 2 THEN CodeShape("cond", TRUE) ELSE CodeShape("var", FALSE))
    ELSE CodeShape("var", FALSE)

\* the generated transformer's fields: _lookups, and the alias table the
\* generator expanded the texts from
Generated(mf) == [lookups |-> gen_lookups(mf.lookups), aliases |-> mf.aliases]

RECURSIVE gen_transform_code(_, _, _)
RECURSIVE gen_alias_code(_, _, _, _)
\* the value of an expanded alias text: the texts nested in one another
gen_alias_code(value, transforms, i, gen) ==
    IF i > Len(transforms) THEN Ok(value)
    ELSE LET rest(r) == IF r.err # "" THEN r ELSE gen_alias_code(r.v, transforms, i + 1, gen)
         IN rest(gen_transform_code(value, transforms[i], gen))

\* the value the text of _transform_to_code(t) computes from _v = value
gen_transform_code(value, t, gen) ==
    IF t.is_alias THEN
        IF t.name \in DOMAIN gen.aliases
        THEN gen_alias_code(value, gen.aliases[t.name].transforms, 1, gen)
        ELSE Ok(value)
    ELSE IF t.name = "trim" THEN
        Ok(IF IsNull(value) THEN VNull ELSE VStr(StrStrip(PyStr(value))))
    ELSE IF t.name = "uppercase" THEN
        Ok(IF IsNull(value) THEN VNull ELSE VStr(StrUpper(PyStr(value))))
    ELSE IF t.name = "to_string" THEN
        Ok(IF IsNull(value) THEN VNull ELSE VStr(PyStr(value)))
    ELSE IF t.name = "to_bool" THEN
        Ok(IF IsNull(value) THEN VNull ELSE VBool(Truthy(value)))
    ELSE IF t.name = "default" THEN
        Ok(IF ~IsNull(value) THEN value ELSE IF t.args # <<>> THEN t.args[1] ELSE VNull)
    ELSE IF t.name = "prefix" THEN
        IF IsNull(value) THEN Ok(VNull)
        ELSE IF t.args = <<>> THEN Ok(VStr(PyStr(value)))
        ELSE IF IsStr(t.args[1]) THEN Ok(VStr(t.args[1].v \o PyStr(value)))
        ELSE Raise("TypeError")
    ELSE IF t.name = "join" THEN
        LET delim == IF t.args # <<>> THEN t.args[1] ELSE VStr(<<",">>) IN
        IF ~IsList(value) THEN Ok(value)
        ELSE IF ~IsStr(delim) THEN Raise("AttributeError")
        ELSE IF \E i \in DOMAIN value.v : ~IsStr(value.v[i]) THEN Raise("TypeError")
        ELSE Ok(VStr(JoinWith(StrEach(value.v), delim.v)))
    ELSE IF t.name = "first" THEN
        Ok(IF IsList(value) /\ value.v # <<>> THEN value.v[1] ELSE value)
    ELSE IF t.name = "count" THEN
        Ok(IF IsList(value) THEN VInt(Len(value.v))
           ELSE IF Truthy(value) THEN VInt(1) ELSE VInt(0))
    ELSE IF t.name = "lookup" THEN
        IF t.args # <<>> THEN gen_lookup(gen.lookups, LookupName(t.args[1]), value)
        ELSE Ok(value)
    ELSE IF t.name = "when" THEN
        Ok(IF Len(t.args) >= 2 /\ PyEq(value, t.args[1]) THEN t.args[2] ELSE value)
    ELSE Ok(value)

\* the lines "_v = <text>" of one mapping, in order
RECURSIVE gen_transform_lines(_, _, _, _)
gen_transform_lines(value, transforms, i, gen) ==
    IF i > Len(transforms) THEN Ok(value)
    ELSE LET rest(r) ==
                 IF r.err # "" THEN r ELSE gen_transform_lines(r.v, transforms, i + 1, gen)
         IN rest(gen_transform_code(value, transforms[i], gen))

\* the text _source_to_code writes for a "+" merge
RECURSIVE gen_concat(_, _, _)
gen_concat(parts, i, d) ==
    IF i > Len(parts) THEN <<>>
    ELSE LET part == parts[i]
             text(x) == IF Truthy(x) THEN PyStr(x) ELSE <<>>
         IN (IF part.type = "str" THEN part.value
             ELSE text(gen_get_value(d, SourcePathStr(part))))
            \o gen_concat(parts, i + 1, d)
\* generated _coalesce over the parts of a "??" merge
RECURSIVE gen_coalesce(_, _, _)
gen_coalesce(parts, i, d) ==
    IF i > Len(parts) THEN VNull
    ELSE LET part == parts[i]
             first(x) == IF ~IsNull(x) THEN x ELSE gen_coalesce(parts, i + 1, d)
         IN first(IF part.type = "str" THEN VStr(part.value)
                  ELSE gen_get_value(d, SourcePathStr(part)))

\* the value of the text PythonCodeGenerator._source_to_code writes
source_to_code(source, d) ==
    IF source.type = "const" THEN source.value
    ELSE IF source.type = "merge" THEN
        (IF source.operator = "+" THEN VStr(gen_concat(source.parts, 1, d))
         ELSE IF source.operator = "??" THEN gen_coalesce(source.parts, 1, d)
         ELSE VNull)
    ELSE IF source.type = "path" THEN
        (IF HasStar(SourcePathStr(source))
         THEN gen_get_array_values(d, SourcePathStr(source))
         ELSE gen_get_value(d, SourcePathStr(source)))
    ELSE VNull

\* state of one generated transform call: target so far, exception if raised
GRun(target) == [err |-> "", target |-> target]
GFailed(e, target) == [err |-> e, target |-> target]

\* the statements PythonCodeGenerator._generate_mapping writes for a mapping
generate_mapping(mapping, d, st, gen) ==
    IF mapping.target.type = "skip" THEN st
    ELSE LET is_optional == mapping.source.type = "path" /\ mapping.source.is_optional
             caught == is_optional
             swallowed == {"KeyError", "TypeError", "IndexError"}
             stored(w) ==
                 IF w.err # "" THEN
                     (IF caught /\ w.err \in swallowed THEN GRun(w.v) ELSE GFailed(w.err, w.v))
                 ELSE GRun(w.v)
             transformed(tr) ==
                 IF tr.err # "" THEN
                     (IF caught /\ tr.err \in swallowed THEN st ELSE GFailed(tr.err, st.target))
                 ELSE stored(gen_set_value(st.target, TargetPathStr(mapping.target), tr.v))
         IN transformed(gen_transform_lines(source_to_code(mapping.source, d),
                                            mapping.transforms, 1, gen))

\* the Mapping children of a block, in order
RECURSIVE generate_block(_, _, _, _, _)
generate_block(items, i, d, st, gen) ==
    IF i > Len(items) \/ st.err # "" THEN st
    ELSE generate_block(items, i + 1, d,
            IF items[i].kind = "mapping" THEN generate_mapping(items[i], d, st, gen) ELSE st,
            gen)

\* the statements PythonCodeGenerator._generate_conditional writes
generate_conditional(cond, d, st, gen) ==
    LET py_op == IF cond.condition.operator \in {"==", "!=", ">", "<", ">=", "<="}
                 THEN cond.condition.operator ELSE "=="
        decided(c) ==
            IF c.err # "" THEN GFailed(c.err, st.target)
            ELSE IF c.b THEN generate_block(cond.mappings, 1, d, st, gen)
            ELSE st
    IN  decided(IF cond.is_else THEN [err |-> "", b |-> TRUE]
                ELSE compare(py_op, gen_get_value(d, cond.condition.field),
                             cond.condition.value))

\* the statements PythonCodeGenerator._generate_mappings writes: Mapping and
\* ConditionalBlock items, nothing for any other item
RECURSIVE generate_mappings(_, _, _, _, _)
generate_mappings(items, i, d, st, gen) ==
    IF i > Len(items) \/ st.err # "" THEN st
    ELSE generate_mappings(items, i + 1, d,
            IF items[i].kind = "mapping" THEN generate_mapping(items[i], d, st, gen)
            ELSE IF items[i].kind = "cond" THEN generate_conditional(items[i], d, st, gen)
            ELSE st,
            gen)


\* whether the text of a mapping's transform lines is valid Python
RECURSIVE lines_valid(_, _, _)
lines_valid(transforms, i, aliases) ==
    i > Len(transforms)
    \/ (transform_to_code(transforms[i], aliases).kind # "bad"
        /\ lines_valid(transforms, i + 1, aliases))

mapping_valid(mapping, aliases) ==
    mapping.target.type = "skip" \/ lines_valid(mapping.transforms, 1, aliases)

\* the Mapping children of a block that write statements
written(items) == SelectSeq(items, LAMBDA m : m.kind = "mapping" /\ m.target.type # "skip")

\* whether the class text generate() returns is a valid Python module: every
\* expanded alias text is an expression, and every "if" line is followed by
\* an indented statement
RECURSIVE text_valid(_, _, _)
text_valid(items, i, aliases) ==
    i > Len(items)
    \/ (/\ text_valid(items, i + 1, aliases)
        /\ IF items[i].kind = "mapping" THEN mapping_valid(items[i], aliases)
           ELSE IF items[i].kind = "cond" THEN
                /\ \A j \in DOMAIN items[i].mappings :
                      items[i].mappings[j].kind = "mapping"
                          => mapping_valid(items[i].mappings[j], aliases)
                /\ (items[i].is_else \/ written(items[i].mappings) # <<>>)
           ELSE TRUE)

\* the class generated for a mapping file, imported, instantiated, and its
\* transform(source) called
generated_transform(mf, source_data) ==
    IF ~text_valid(mf.mappings, 1, mf.aliases) THEN GFailed("SyntaxError", EmptyMap)
    ELSE LET null_handling == IF "null_handling" \in DOMAIN mf.config
                              THEN PyStr(mf.config["null_handling"]) ELSE <<"keep">>
             finish(st) ==
                 IF st.err # "" THEN st
                 ELSE IF null_handling = <<"omit">> THEN GRun(remove_nulls(st.target))
                 ELSE st
         IN finish(generate_mappings(mf.mappings, 1, source_data, GRun(EmptyMap),
                                     Generated(mf)))


---------------------------------------------------------------------------
(* FunctionRegistry *)

reserved_names == {"sum", "count", "avg", "min", "max", "len", "abs",
                   "round", "int", "float", "str", "bool", "list", "dict"}

\* what importlib.import_module finds: module name -> the names dir() lists
\* (in its sorted order) and the object behind each
Importable ==
    [builtins |-> [dir |-> <<"len", "sum">>, attrs |-> [sum |-> FnId, len |-> FnOne]],
     math |-> [dir |-> <<"pi", "sqrt">>, attrs |-> [sqrt |-> FnId, pi |-> NotCallable]]]

\* what the file system holds: path -> suffix, the module the file defines,
\* whether executing it raises
Files ==
    ("custom.py" :> [suffix |-> ".py", dir |-> <<"count", "helper">>,
                     attrs |-> [count |-> FnOne, helper |-> FnId], raises |-> FALSE])
    @@ ("broken.py" :> [suffix |-> ".py", dir |-> <<"helper">>,
                        attrs |-> [helper |-> FnId], raises |-> TRUE])
    @@ ("notes.txt" :> [suffix |-> ".txt", dir |-> <<"helper">>,
                        attrs |-> [helper |-> FnId], raises |-> FALSE])

\* dict with key k set / removed
FnPut(f, k, x) == [n \in DOMAIN f \cup {k} |-> IF n = k THEN x ELSE f[n]]
FnDel(f, k) == [n \in DOMAIN f \ {k} |-> f[n]]
NoFunctions == [n \in {} |-> FnId]
NoMetadata == [n \in {} |-> ""]

\* [name for name in dir(module) if not name.startswith('_') and callable(...)]
PublicCallables(module) == SelectSeq(module.dir, LAMBDA n : module.attrs[n].callable)

\* the registration loop shared by register_module and register_file
RECURSIVE register_each(_, _, _, _, _, _)
register_each(names_to_check, i, attrs, prefix, source, reg) ==
    IF i > Len(names_to_check) THEN reg
    ELSE LET func_name == names_to_check[i]
             reg_name == IF prefix # "" THEN prefix \o func_name ELSE func_name
         IN IF func_name \notin DOMAIN attrs \/ ~attrs[func_name].callable
            THEN register_each(names_to_check, i + 1, attrs, prefix, source, reg)
            ELSE register_each(names_to_check, i + 1, attrs, prefix, source,
                    [fns |-> FnPut(reg.fns, reg_name, attrs[func_name]),
                     meta |-> FnPut(reg.meta, reg_name, source)])

\* FunctionRegistry.register(name, func)
register(name, func) ==
    IF name = "" \/ ~func.callable \/ name \in reserved_names
    THEN /\ regerr' = TRUE
         /\ UNCHANGED <<functions, modules, function_metadata>>
    ELSE /\ functions' = FnPut(functions, name, func)
         /\ function_metadata' = FnPut(function_metadata, name, "direct")
         /\ regerr' = FALSE
         /\ UNCHANGED modules

\* FunctionRegistry.register_module(module_name, function_names, prefix);
\* function_names <<>> and prefix "" stand for None
register_module(module_name, function_names, prefix) ==
    IF module_name \notin DOMAIN Importable
    THEN /\ regerr' = TRUE
         /\ UNCHANGED <<functions, modules, function_metadata>>
    ELSE LET attrs == Importable[module_name].attrs
             names_to_check == IF function_names # <<>> THEN function_names
                               ELSE PublicCallables(Importable[module_name])
             reg == register_each(names_to_check, 1, attrs, prefix, "module:" \o module_name,
                                  [fns |-> functions, meta |-> function_metadata])
         IN /\ modules' = modules \cup {module_name}
            /\ functions' = reg.fns
            /\ function_metadata' = reg.meta
            /\ regerr' = FALSE

\* FunctionRegistry.register_file(file_path, function_names, prefix)
register_file(file_path, function_names, prefix) ==
    IF file_path \notin DOMAIN Files
       \/ Files[file_path].suffix # ".py"
       \/ Files[file_path].raises
    THEN /\ regerr' = TRUE
         /\ UNCHANGED <<functions, modules, function_metadata>>
    ELSE LET attrs == Files[file_path].attrs
             names_to_check == IF function_names # <<>> THEN function_names
                               ELSE PublicCallables(Files[file_path])
             reg == register_each(names_to_check, 1, attrs, prefix, "file:" \o file_path,
                                  [fns |-> functions, meta |-> function_metadata])
         IN /\ modules' = modules \cup {file_path}
            /\ functions' = reg.fns
            /\ function_metadata' = reg.meta
            /\ regerr' = FALSE

\* the parse at the head of register_from_spec: a spec is a sequence of its
\* words and separators, " as " and ":" among them
ParseSpec(spec) ==
    LET k == IndexFrom(spec, " as ", 1)
        body == IF k # 0 THEN SubSeq(spec, 1, k - 1) ELSE spec
        alias == IF k # 0 THEN Cat(StrStrip(SubSeq(spec, k + 1, Len(spec)))) ELSE ""
        c == LastIndexOf(body, ":", Len(body))
    IN  [ok |-> c # 0,
         alias |-> alias,
         module_path |-> Cat(StrStrip(SubSeq(body, 1, c - 1))),
         func_name |-> Cat(StrStrip(SubSeq(body, c + 1, Len(body))))]

\* FunctionRegistry.register_from_spec(spec)
register_from_spec(spec) ==
    LET ps == ParseSpec(spec)
        reg_name == IF ps.alias # "" THEN ps.alias ELSE ps.func_name
    IN  IF \/ ~ps.ok
           \/ ps.module_path \notin DOMAIN Importable
           \/ ps.func_name \notin DOMAIN Importable[ps.module_path].attrs
           \/ ~Importable[ps.module_path].attrs[ps.func_name].callable
        THEN /\ regerr' = TRUE
             /\ UNCHANGED <<functions, modules, function_metadata>>
        ELSE /\ functions' = FnPut(functions, reg_name,
                                   Importable[ps.module_path].attrs[ps.func_name])
             /\ function_metadata' = FnPut(function_metadata, reg_name,
                                           "spec:" \o Cat(IF IndexFrom(spec, " as ", 1) # 0
                                                          THEN SubSeq(spec, 1, IndexFrom(spec, " as ", 1) - 1)
                                                          ELSE spec))
             /\ regerr' = FALSE
             /\ UNCHANGED modules

\* FunctionRegistry.unregister(name)
unregister(name) ==
    /\ functions' = IF name \in DOMAIN functions THEN FnDel(functions, name) ELSE functions
    /\ function_metadata' = IF name \in DOMAIN functions
                            THEN FnDel(function_metadata, name) ELSE function_metadata
    /\ regerr' = FALSE
    /\ UNCHANGED modules

\* FunctionRegistry.clear()
clear ==
    /\ functions' = NoFunctions
    /\ function_metadata' = NoMetadata
    /\ regerr' = FALSE
    /\ UNCHANGED modules


---------------------------------------------------------------------------
(* SchemaMapLexer *)

Token(type, value, line, column) ==
    [type |-> type, value |-> value, line |-> line, column |-> column]
\* _next_token returning None
NoToken == Token("", VNull, 0, 0)

KEYWORDS ==
    [true |-> [type |-> "BOOLEAN", value |-> VBool(TRUE)],
     false |-> [type |-> "BOOLEAN", value |-> VBool(FALSE)],
     null |-> [type |-> "NULL", value |-> VNull],
     constant |-> [type |-> "CONSTANT", value |-> VStr(<<"constant">>)],
     filter |-> [type |-> "FILTER", value |-> VStr(<<"filter">>)],
     flatten |-> [type |-> "FLATTEN", value |-> VStr(<<"flatten">>)]]

DIRECTIVES ==
    ("@config" :> "CONFIG") @@ ("@aliases" :> "ALIASES") @@ ("@lookups" :> "LOOKUPS")
    @@ ("@functions" :> "FUNCTIONS") @@ ("@when" :> "WHEN") @@ ("@else" :> "ELSE")
    @@ ("@compute" :> "COMPUTE") @@ ("@call" :> "CALL") @@ ("@expr" :> "EXPR")
    @@ ("@now" :> "NOW") @@ ("@uuid" :> "UUID") @@ ("@repeat" :> "REPEAT")
    @@ ("@collect" :> "COLLECT")

TWO_CHAR_OPS ==
    ("??" :> "DOUBLE_QUESTION") @@ ("==" :> "EQUALS") @@ ("!=" :> "NOT_EQUALS")
    @@ (">=" :> "GREATER_EQ") @@ ("<=" :> "LESS_EQ")

SINGLE_CHAR_OPS ==
    (":" :> "COLON") @@ ("|" :> "PIPE") @@ ("." :> "DOT") @@ ("," :> "COMMA")
    @@ ("+" :> "PLUS") @@ ("-" :> "MINUS") @@ ("*" :> "STAR") @@ ("/" :> "SLASH")
    @@ ("?" :> "QUESTION") @@ ("@" :> "AT") @@ ("~" :> "TILDE") @@ (">" :> "GREATER")
    @@ ("<" :> "LESS") @@ ("[" :> "LBRACKET") @@ ("]" :> "RBRACKET")
    @@ ("{" :> "LBRACE") @@ ("}" :> "RBRACE") @@ ("(" :> "LPAREN") @@ (")" :> "RPAREN")

\* SchemaMapLexer.__init__: pos, line, column
NewLexer == [pos |-> 0, line |-> 1, column |-> 1]

\* self.source[self.pos] for a lexer lx
CharAt(source, lx) == source[lx.pos + 1]
AtEnd(source, lx) == lx.pos >= Len(source)

\* SchemaMapLexer._advance(count)
RECURSIVE lex_advance(_, _, _)
lex_advance(source, lx, count) ==
    IF count = 0 \/ AtEnd(source, lx) THEN lx
    ELSE lex_advance(source,
            IF CharAt(source, lx) = "\n"
            THEN [pos |-> lx.pos + 1, line |-> lx.line + 1, column |-> 1]
            ELSE [pos |-> lx.pos + 1, line |-> lx.line, column |-> lx.column + 1],
            count - 1)

\* SchemaMapLexer._peek(offset): "" stands for None
lex_peek(source, lx, offset) ==
    IF lx.pos + offset < Len(source) THEN source[lx.pos + offset + 1] ELSE ""

\* SchemaMapLexer._skip_whitespace
RECURSIVE skip_whitespace(_, _)
skip_whitespace(source, lx) ==
    IF ~AtEnd(source, lx) /\ CharAt(source, lx) \in {" ", "\t", "\r"}
    THEN skip_whitespace(source, lex_advance(source, lx, 1))
    ELSE lx

\* the tests of the lexer's scanning loops, by name
CharIn(class, c) ==
    IF class = "digit" THEN IsDigitChar(c)
    ELSE IF class = "word" THEN IsWordChar(c)
    ELSE c # "\n"

\* the lexer after "while self.pos < len(self.source) and <test>: self._advance()"
RECURSIVE advance_while(_, _, _)
advance_while(source, lx, class) ==
    IF ~AtEnd(source, lx) /\ CharIn(class, CharAt(source, lx))
    THEN advance_while(source, lex_advance(source, lx, 1), class)
    ELSE lx

\* self.source[start:self.pos]
Slice(source, start, lx) == SubSeq(source, start + 1, lx.pos)

\* outcome of a reader: the token, the lexer after it, the exception raised
Lexed(tok, lx) == [err |-> "", tok |-> tok, lx |-> lx]
LexRaise(e, lx) == [err |-> e, tok |-> NoToken, lx |-> lx]

\* SchemaMapLexer._read_comment
read_comment(source, lx) ==
    LET done(end) == Lexed(Token("COMMENT", VStr(Slice(source, lx.pos, end)), lx.line, lx.column),
                           end)
    IN  done(advance_while(source, lx, "comment"))

\* SchemaMapLexer._read_string: the loop, from lexer cur with the characters
\* read so far
RECURSIVE read_string_from(_, _, _, _, _)
read_string_from(source, cur, quote, value, start) ==
    IF AtEnd(source, cur) THEN LexRaise("LexerError", cur)
    ELSE IF CharAt(source, cur) = quote
    THEN Lexed(Token("STRING", VStr(value), start.line, start.column), lex_advance(source, cur, 1))
    ELSE IF CharAt(source, cur) = "\\" THEN
        LET escaped(after) ==
                IF AtEnd(source, after) THEN read_string_from(source, after, quote, value, start)
                ELSE read_string_from(source, lex_advance(source, after, 1), quote,
                        Append(value, IF CharAt(source, after) = "n" THEN "\n"
                                      ELSE IF CharAt(source, after) = "t" THEN "\t"
                                      ELSE CharAt(source, after)),
                        start)
        IN  escaped(lex_advance(source, cur, 1))
    ELSE read_string_from(source, lex_advance(source, cur, 1), quote,
                          Append(value, CharAt(source, cur)), start)

read_string(source, lx, quote) ==
    read_string_from(source, lex_advance(source, lx, 1), quote, <<>>, lx)

\* int(value_str) / float(value_str) of the text _read_number cut out:
\* an optional "-", digits, and optionally "." and digits
NumberValue(value_str) ==
    LET neg == value_str # <<>> /\ Head(value_str) = "-"
        body == IF neg THEN Tail(value_str) ELSE value_str
        dot == IndexFrom(body, ".", 1)
        whole == IF dot = 0 THEN body ELSE SubSeq(body, 1, dot - 1)
        frac == IF dot = 0 THEN <<>> ELSE SubSeq(body, dot + 1, Len(body))
        sign(n) == IF neg THEN 0 - n ELSE n
    IN  IF ~AllDigits(whole) \/ (dot # 0 /\ ~AllDigits(frac)) THEN Raise("ValueError")
        ELSE IF dot = 0 THEN Ok(VInt(sign(NatOf(whole, 0))))
        ELSE Ok(VFloat(sign(NatOf(whole \o frac, 0)), Pow10(Len(frac))))

\* SchemaMapLexer._read_number
read_number(source, lx) ==
    LET l1 == IF CharAt(source, lx) = "-" THEN lex_advance(source, lx, 1) ELSE lx
        l2 == advance_while(source, l1, "digit")
        l3 == IF ~AtEnd(source, l2) /\ CharAt(source, l2) = "."
                 /\ lex_peek(source, l2, 1) # "" /\ IsDigitChar(lex_peek(source, l2, 1))
              THEN advance_while(source, lex_advance(source, l2, 1), "digit")
              ELSE l2
        made(end, value) ==
            IF value.err # "" THEN LexRaise(value.err, end)
            ELSE Lexed(Token("NUMBER", value.v, lx.line, lx.column), end)
    IN  made(l3, NumberValue(Slice(source, lx.pos, l3)))

\* SchemaMapLexer._read_directive
read_directive(source, lx) ==
    LET named(end, directive) ==
            IF directive \in DOMAIN DIRECTIVES
            THEN Lexed(Token(DIRECTIVES[directive], VStr(<<directive>>), lx.line, lx.column), end)
            ELSE Lexed(Token("AT", VStr(<<"@">>), lx.line, lx.column),
                       [pos |-> lx.pos + 1, line |-> end.line, column |-> lx.column + 1])
        cut(end) == named(end, Cat(Slice(source, lx.pos, end)))
    IN  cut(advance_while(source, lex_advance(source, lx, 1), "word"))

\* SchemaMapLexer._read_identifier
read_identifier(source, lx) ==
    LET named(end, value) ==
            IF Cat(value) \in DOMAIN KEYWORDS
            THEN Lexed(Token(KEYWORDS[Cat(value)].type, KEYWORDS[Cat(value)].value,
                             lx.line, lx.column), end)
            ELSE Lexed(Token("IDENTIFIER", VStr(value), lx.line, lx.column), end)
        cut(end) == named(end, Slice(source, lx.pos, end))
    IN  cut(advance_while(source, lx, "word"))

\* SchemaMapLexer._next_token, after _skip_whitespace left the lexer at lx
next_token_at(source, lx) ==
    LET char == CharAt(source, lx)
        two_char == Cat(SubSeq(source, lx.pos + 1,
                               IF lx.pos + 2 <= Len(source) THEN lx.pos + 2 ELSE Len(source)))
    IN  IF char = "#" THEN read_comment(source, lx)
        ELSE IF char \in {"\"", "'"} THEN read_string(source, lx, char)
        ELSE IF IsDigitChar(char)
                \/ (char = "-" /\ lex_peek(source, lx, 1) # ""
                    /\ IsDigitChar(lex_peek(source, lx, 1)))
             THEN read_number(source, lx)
        ELSE IF char = "@" THEN read_directive(source, lx)
        ELSE IF IsAlphaChar(char) \/ char = "_" THEN read_identifier(source, lx)
        ELSE IF two_char \in DOMAIN TWO_CHAR_OPS
             THEN Lexed(Token(TWO_CHAR_OPS[two_char], VStr(<<two_char>>), lx.line, lx.column),
                        lex_advance(source, lx, 2))
        ELSE IF char \in DOMAIN SINGLE_CHAR_OPS
             THEN Lexed(Token(SINGLE_CHAR_OPS[char], VStr(<<char>>), lx.line, lx.column),
                        lex_advance(source, lx, 1))
        ELSE IF char = "\n"
             THEN Lexed(Token("NEWLINE", VStr(<<"\n">>), lx.line, lx.column),
                        lex_advance(source, lx, 1))
        ELSE Lexed(Token("UNKNOWN", VStr(<<char>>), lx.line, lx.column),
                   lex_advance(source, lx, 1))

\* SchemaMapLexer._next_token
next_token(source, lx) ==
    LET skipped(at) == IF AtEnd(source, at) THEN Lexed(NoToken, at)
                       ELSE next_token_at(source, at)
    IN  skipped(skip_whitespace(source, lx))

\* SchemaMapLexer.tokenize: the loop, then the EOF token
RECURSIVE tokenize_from(_, _, _)
tokenize_from(source, lx, acc) ==
    IF AtEnd(source, lx)
    THEN [err |-> "", tokens |-> Append(acc, Token("EOF", VNull, lx.line, lx.column))]
    ELSE LET read(r) ==
                 IF r.err # "" THEN [err |-> r.err, tokens |-> acc]
                 ELSE tokenize_from(source, r.lx,
                        IF r.tok # NoToken /\ r.tok.type # "COMMENT"
                        THEN Append(acc, r.tok) ELSE acc)
         IN  read(next_token(source, lx))
tokenize(source) == tokenize_from(source, NewLexer, <<>>)

---------------------------------------------------------------------------
(* SchemaMapParser: the token cursor and the literal values *)

\* self.current_token for a parser at pos (None past the last token)
Cur(tokens, pos) == IF pos < Len(tokens) THEN tokens[pos + 1] ELSE NoToken
\* SchemaMapParser._is_at_end / _check
is_at_end(tokens, pos) == Cur(tokens, pos) = NoToken \/ Cur(tokens, pos).type = "EOF"
check(tokens, pos, token_type) == ~is_at_end(tokens, pos) /\ Cur(tokens, pos).type = token_type
\* SchemaMapParser._skip_newlines
RECURSIVE skip_newlines(_, _)
skip_newlines(tokens, pos) ==
    IF check(tokens, pos, "NEWLINE") THEN skip_newlines(tokens, pos + 1) ELSE pos

\* outcome of a parse method: the node it returns and the cursor after it,
\* or ParserError(message, self.current_token)
NoNode == [type |-> "none"]
Parsed(node, pos) == [err |-> "", node |-> node, pos |-> pos, token |-> NoToken]
ParserError(tokens, pos) ==
    [err |-> "ParserError", node |-> NoNode, pos |-> pos, token |-> Cur(tokens, pos)]

RECURSIVE parse_value(_, _)
RECURSIVE parse_dict_entries(_, _, _)
RECURSIVE parse_array_items(_, _, _)

\* SchemaMapParser._parse_inline_dict: the loop and the closing brace
parse_dict_entries(tokens, pos, result) ==
    IF check(tokens, pos, "RBRACE") THEN Parsed(result, pos + 1)
    ELSE IF is_at_end(tokens, pos) THEN ParserError(tokens, pos)
    ELSE LET stored(key, value) ==
                 IF value.err # "" THEN value
                 ELSE parse_dict_entries(tokens,
                        skip_newlines(tokens, IF check(tokens, value.pos, "COMMA")
                                              THEN value.pos + 1 ELSE value.pos),
                        DictPut(result, Cat(PyStr(key.node)), value.node))
             keyed(key) ==
                 IF key.err # "" THEN key
                 ELSE IF ~check(tokens, key.pos, "COLON") THEN ParserError(tokens, key.pos)
                 ELSE stored(key, parse_value(tokens, key.pos + 1))
         IN  keyed(parse_value(tokens, pos))
parse_inline_dict(tokens, pos) ==
    IF ~check(tokens, pos, "LBRACE") THEN ParserError(tokens, pos)
    ELSE parse_dict_entries(tokens, skip_newlines(tokens, pos + 1), EmptyMap)

\* SchemaMapParser._parse_inline_array
parse_array_items(tokens, pos, result) ==
    IF check(tokens, pos, "RBRACKET") THEN Parsed(VList(result), pos + 1)
    ELSE IF is_at_end(tokens, pos) THEN ParserError(tokens, pos)
    ELSE LET item(value) ==
                 IF value.err # "" THEN value
                 ELSE parse_array_items(tokens,
                        IF check(tokens, value.pos, "COMMA") THEN value.pos + 1 ELSE value.pos,
                        Append(result, value.node))
         IN  item(parse_value(tokens, pos))
parse_inline_array(tokens, pos) ==
    IF ~check(tokens, pos, "LBRACKET") THEN ParserError(tokens, pos)
    ELSE parse_array_items(tokens, pos + 1, <<>>)

\* "@" + name, or "@" alone, for the cursor on an AT token
AtReference(tokens, pos) ==
    IF check(tokens, pos + 1, "IDENTIFIER")
    THEN Parsed(VStr(<<"@">> \o Cur(tokens, pos + 1).value.v), pos + 2)
    ELSE Parsed(VStr(<<"@">>), pos + 1)

\* SchemaMapParser._parse_value
parse_value(tokens, pos) ==
    IF is_at_end(tokens, pos) THEN ParserError(tokens, pos)
    ELSE IF Cur(tokens, pos).type \in {"STRING", "NUMBER", "BOOLEAN", "NULL", "IDENTIFIER"}
    THEN Parsed(Cur(tokens, pos).value, pos + 1)
    ELSE IF Cur(tokens, pos).type = "AT" THEN AtReference(tokens, pos)
    ELSE IF Cur(tokens, pos).type = "LBRACE" THEN parse_inline_dict(tokens, pos)
    ELSE IF Cur(tokens, pos).type = "LBRACKET" THEN parse_inline_array(tokens, pos)
    ELSE ParserError(tokens, pos)

---------------------------------------------------------------------------
(* SchemaMapParser: the directive blocks *)

\* the name an IDENTIFIER token carries, as a dict key
NameAt(tokens, pos) == Cat(Cur(tokens, pos).value.v)

\* SchemaMapParser._parse_config, from the cursor after "{" and newlines
RECURSIVE config_entries(_, _, _)
config_entries(tokens, pos, config) ==
    IF check(tokens, pos, "RBRACE") THEN Parsed(config, pos + 1)
    ELSE IF is_at_end(tokens, pos) THEN ParserError(tokens, pos)
    ELSE IF ~check(tokens, pos, "IDENTIFIER") THEN ParserError(tokens, pos)
    ELSE IF ~check(tokens, pos + 1, "COLON") THEN ParserError(tokens, pos + 1)
    ELSE LET stored(value) ==
                 IF value.err # "" THEN value
                 ELSE config_entries(tokens, skip_newlines(tokens, value.pos),
                                     FnPut(config, NameAt(tokens, pos), value.node))
         IN  stored(parse_value(tokens, pos + 2))
\* the cursor is on the directive token
parse_config(tokens, pos) ==
    IF ~check(tokens, pos + 1, "LBRACE") THEN ParserError(tokens, pos + 1)
    ELSE config_entries(tokens, skip_newlines(tokens, pos + 2), <<>>)

\* LookupDefinition.source: a str names a file, a dict is the table itself
\* (InlineLookup); the str case
LookupFile(source) == [kind |-> "file", path |-> source]

\* SchemaMapParser._parse_lookups
RECURSIVE lookup_entries(_, _, _)
lookup_entries(tokens, pos, lookups) ==
    IF check(tokens, pos, "RBRACE") THEN Parsed(lookups, pos + 1)
    ELSE IF is_at_end(tokens, pos) THEN ParserError(tokens, pos)
    ELSE IF ~check(tokens, pos, "IDENTIFIER") THEN ParserError(tokens, pos)
    ELSE IF ~check(tokens, pos + 1, "COLON") THEN ParserError(tokens, pos + 1)
    ELSE IF check(tokens, pos + 2, "STRING")
    THEN lookup_entries(tokens, skip_newlines(tokens, pos + 3),
                        FnPut(lookups, NameAt(tokens, pos),
                              LookupFile(Cur(tokens, pos + 2).value.v)))
    ELSE IF check(tokens, pos + 2, "LBRACE")
    THEN LET stored(table) ==
                 IF table.err # "" THEN table
                 ELSE lookup_entries(tokens, skip_newlines(tokens, table.pos),
                                     FnPut(lookups, NameAt(tokens, pos),
                                           InlineLookup(table.node)))
         IN  stored(parse_inline_dict(tokens, pos + 2))
    ELSE ParserError(tokens, pos + 2)
parse_lookups(tokens, pos) ==
    IF ~check(tokens, pos + 1, "LBRACE") THEN ParserError(tokens, pos + 1)
    ELSE lookup_entries(tokens, skip_newlines(tokens, pos + 2), <<>>)

\* position of the substring " as " in a str, 0 if absent
RECURSIVE AsAt(_, _)
AsAt(s, i) ==
    IF i + 3 > Len(s) THEN 0
    ELSE IF SubSeq(s, i, i + 3) = <<" ", "a", "s", " ">> THEN i
    ELSE AsAt(s, i + 1)

\* FunctionDefinition(name, spec, alias); alias VNull stands for None
FunctionDefinition(name, spec, alias) == [name |-> name, spec |-> spec, alias |-> alias]
\* the " as " split in _parse_functions
SplitSpec(name, spec) ==
    IF AsAt(spec, 1) = 0 THEN FunctionDefinition(name, spec, VNull)
    ELSE FunctionDefinition(name, StrStrip(SubSeq(spec, 1, AsAt(spec, 1) - 1)),
                            StrStrip(SubSeq(spec, AsAt(spec, 1) + 4, Len(spec))))

\* SchemaMapParser._parse_functions
RECURSIVE function_entries(_, _, _)
function_entries(tokens, pos, fdefs) ==
    IF check(tokens, pos, "RBRACE") THEN Parsed(fdefs, pos + 1)
    ELSE IF is_at_end(tokens, pos) THEN ParserError(tokens, pos)
    ELSE IF ~check(tokens, pos, "IDENTIFIER") THEN ParserError(tokens, pos)
    ELSE IF ~check(tokens, pos + 1, "COLON") THEN ParserError(tokens, pos + 1)
    ELSE IF ~check(tokens, pos + 2, "STRING") THEN ParserError(tokens, pos + 2)
    ELSE function_entries(tokens, skip_newlines(tokens, pos + 3),
            FnPut(fdefs, NameAt(tokens, pos),
                  SplitSpec(NameAt(tokens, pos), Cur(tokens, pos + 2).value.v)))
parse_functions(tokens, pos) ==
    IF ~check(tokens, pos + 1, "LBRACE") THEN ParserError(tokens, pos + 1)
    ELSE function_entries(tokens, skip_newlines(tokens, pos + 2), <<>>)

---------------------------------------------------------------------------
(* SchemaMapParser: transforms, paths, mappings *)

\* the argument loop of _parse_transform, from the cursor after "("
RECURSIVE transform_args(_, _, _)
transform_args(tokens, pos, args) ==
    IF check(tokens, pos, "RPAREN") THEN Parsed(args, pos + 1)
    ELSE IF is_at_end(tokens, pos) THEN ParserError(tokens, pos)
    ELSE LET added(arg) ==
                 IF arg.err # "" THEN arg
                 ELSE transform_args(tokens,
                        IF check(tokens, arg.pos, "COMMA") THEN arg.pos + 1 ELSE arg.pos,
                        Append(args, arg.node))
         IN  added(IF check(tokens, pos, "AT") THEN AtReference(tokens, pos)
                   ELSE parse_value(tokens, pos))

\* SchemaMapParser._parse_transform: NoNode stands for None
parse_transform(tokens, pos) ==
    LET is_alias == check(tokens, pos, "AT")
        at == IF is_alias THEN pos + 1 ELSE pos
        named(args) ==
            IF args.err # "" THEN args
            ELSE Parsed([name |-> NameAt(tokens, at), args |-> args.node,
                         is_alias |-> is_alias], args.pos)
    IN  IF ~check(tokens, at, "IDENTIFIER") /\ ~check(tokens, at, "CONSTANT")
        THEN Parsed(NoNode, at)
        ELSE named(IF check(tokens, at + 1, "LPAREN") THEN transform_args(tokens, at + 2, <<>>)
                   ELSE Parsed(<<>>, at + 1))

\* SchemaMapParser._parse_transform_chain: while self._check(PIPE)
RECURSIVE parse_transform_chain(_, _, _)
parse_transform_chain(tokens, pos, transforms) ==
    IF ~check(tokens, pos, "PIPE") THEN Parsed(transforms, pos)
    ELSE LET added(t) ==
                 IF t.err # "" THEN t
                 ELSE parse_transform_chain(tokens, t.pos,
                        IF t.node # NoNode THEN Append(transforms, t.node) ELSE transforms)
         IN  added(parse_transform(tokens, pos + 1))

\* SchemaMapParser._parse_transform_chain_direct
parse_transform_chain_direct(tokens, pos) ==
    LET rest(t) ==
            IF t.err # "" THEN t
            ELSE parse_transform_chain(tokens, t.pos,
                    IF t.node # NoNode THEN <<t.node>> ELSE <<>>)
    IN  rest(parse_transform(tokens, pos))

\* the parameter loop of _parse_aliases, from the cursor after "("
RECURSIVE alias_params(_, _, _)
alias_params(tokens, pos, params) ==
    IF check(tokens, pos, "RPAREN") THEN Parsed(params, pos + 1)
    ELSE IF ~check(tokens, pos, "IDENTIFIER") THEN ParserError(tokens, pos)
    ELSE alias_params(tokens,
            IF check(tokens, pos + 1, "COMMA") THEN pos + 2 ELSE pos + 1,
            Append(params, NameAt(tokens, pos)))

\* SchemaMapParser._parse_aliases
RECURSIVE alias_entries(_, _, _)
alias_entries(tokens, pos, aliases) ==
    IF check(tokens, pos, "RBRACE") THEN Parsed(aliases, pos + 1)
    ELSE IF is_at_end(tokens, pos) THEN ParserError(tokens, pos)
    ELSE IF ~check(tokens, pos, "IDENTIFIER") THEN ParserError(tokens, pos)
    ELSE LET stored(params, chain) ==
                 IF chain.err # "" THEN chain
                 ELSE alias_entries(tokens, skip_newlines(tokens, chain.pos),
                        FnPut(aliases, NameAt(tokens, pos),
                              AliasDefinition(NameAt(tokens, pos), params.node, chain.node)))
             headed(params) ==
                 IF params.err # "" THEN params
                 ELSE IF ~check(tokens, params.pos, "COLON") THEN ParserError(tokens, params.pos)
                 ELSE stored(params, parse_transform_chain_direct(tokens, params.pos + 1))
         IN  headed(IF check(tokens, pos + 1, "LPAREN") THEN alias_params(tokens, pos + 2, <<>>)
                    ELSE Parsed(<<>>, pos + 1))
parse_aliases(tokens, pos) ==
    IF ~check(tokens, pos + 1, "LBRACE") THEN ParserError(tokens, pos + 1)
    ELSE alias_entries(tokens, skip_newlines(tokens, pos + 2), <<>>)

\* segments[-1] = segments[-1] + suffix, if segments
AppendLast(segments, suffix) ==
    IF segments = <<>> THEN segments
    ELSE [segments EXCEPT ![Len(segments)] = @ \o suffix]

\* the "[...]" part of the loop of _parse_path (is_source) / _parse_target,
\* the cursor on "["
path_subscript(tokens, pos, segments, is_source) ==
    LET closed(r) ==
            IF r.err # "" THEN r
            ELSE IF ~check(tokens, r.pos, "RBRACKET") THEN ParserError(tokens, r.pos)
            ELSE Parsed(r.node, r.pos + 1)
    IN  closed(IF check(tokens, pos + 1, "STAR")
               THEN Parsed(AppendLast(segments, <<"[", "*", "]">>), pos + 2)
               ELSE IF check(tokens, pos + 1, "NUMBER")
               THEN Parsed(AppendLast(segments,
                              <<"[">> \o PyStr(Cur(tokens, pos + 1).value) \o <<"]">>), pos + 2)
               ELSE IF is_source /\ check(tokens, pos + 1, "MINUS")
               THEN (IF ~check(tokens, pos + 2, "NUMBER") THEN ParserError(tokens, pos + 2)
                     ELSE Parsed(AppendLast(segments,
                                    <<"[", "-">> \o PyStr(Cur(tokens, pos + 2).value) \o <<"]">>),
                                 pos + 3))
               ELSE Parsed(segments, pos + 1))

\* the "while True" loop of _parse_path / _parse_target
RECURSIVE path_segments(_, _, _, _)
path_segments(tokens, pos, segments, is_source) ==
    LET dotted(r) ==
            IF r.err # "" THEN r
            ELSE IF ~check(tokens, r.pos, "DOT") THEN r
            ELSE IF check(tokens, r.pos + 1, "IDENTIFIER")
            THEN path_segments(tokens, r.pos + 2,
                               Append(r.node, Cur(tokens, r.pos + 1).value.v), is_source)
            ELSE IF is_source /\ check(tokens, r.pos + 1, "STAR")
            THEN path_segments(tokens, r.pos + 2, Append(r.node, <<"*">>), is_source)
            ELSE Parsed(r.node, r.pos + 1)
    IN  dotted(IF check(tokens, pos, "LBRACKET")
               THEN path_subscript(tokens, pos, segments, is_source)
               ELSE Parsed(segments, pos))

\* SchemaMapParser._parse_path
parse_source_path(tokens, pos) ==
    LET leading == IF check(tokens, pos, "DOT") THEN <<<<>>>> ELSE <<>>
        p1 == IF check(tokens, pos, "DOT") THEN pos + 1 ELSE pos
        marked(r) ==
            IF r.err # "" THEN r
            ELSE IF check(tokens, r.pos, "QUESTION")
            THEN Parsed(SourcePath(r.node, TRUE), r.pos + 1)
            ELSE Parsed(SourcePath(r.node, FALSE), r.pos)
    IN  marked(IF check(tokens, p1, "IDENTIFIER")
               THEN path_segments(tokens, p1 + 1,
                                  Append(leading, Cur(tokens, p1).value.v), TRUE)
               ELSE path_segments(tokens, p1, leading, TRUE))

\* SchemaMapParser._parse_target
parse_target(tokens, pos) ==
    LET made(r) == IF r.err # "" THEN r ELSE Parsed(TargetPath(r.node), r.pos)
    IN  IF check(tokens, pos, "TILDE") THEN Parsed(SkipTarget, pos + 1)
        ELSE made(IF check(tokens, pos, "IDENTIFIER")
                  THEN path_segments(tokens, pos + 1, <<Cur(tokens, pos).value.v>>, FALSE)
                  ELSE path_segments(tokens, pos, <<>>, FALSE))

\* SchemaMapParser._parse_merge_expression: the loop over "+" / "??"
RECURSIVE merge_parts(_, _, _)
merge_parts(tokens, pos, parts) ==
    IF ~check(tokens, pos, "PLUS") /\ ~check(tokens, pos, "DOUBLE_QUESTION")
    THEN Parsed(parts, pos)
    ELSE IF check(tokens, pos + 1, "STRING")
    THEN merge_parts(tokens, pos + 2, Append(parts, StrPart(Cur(tokens, pos + 1).value.v)))
    ELSE IF check(tokens, pos + 1, "IDENTIFIER") \/ check(tokens, pos + 1, "DOT")
    THEN LET added(p) == IF p.err # "" THEN p
                         ELSE merge_parts(tokens, p.pos, Append(parts, p.node))
         IN  added(parse_source_path(tokens, pos + 1))
    ELSE ParserError(tokens, pos + 1)
parse_merge_expression(tokens, pos, first_path, operator) ==
    LET made(parts) == IF parts.err # "" THEN parts
                       ELSE Parsed(MergeExpression(parts.node, operator), parts.pos)
    IN  made(merge_parts(tokens, pos, <<first_path>>))

\* the text _parse_expression_content appends for one token
TokenText(tok) ==
    IF tok.type = "STRING" THEN <<"\"">> \o tok.value.v \o <<"\"">>
    ELSE PyStr(tok.value)

\* SchemaMapParser._parse_expression_content
RECURSIVE parse_expression_content(_, _, _, _)
parse_expression_content(tokens, pos, paren_depth, content) ==
    IF paren_depth <= 0 \/ is_at_end(tokens, pos) THEN Parsed(content, pos)
    ELSE IF check(tokens, pos, "LPAREN")
    THEN parse_expression_content(tokens, pos + 1, paren_depth + 1, Append(content, "("))
    ELSE IF check(tokens, pos, "RPAREN")
    THEN (IF paren_depth - 1 > 0
          THEN parse_expression_content(tokens, pos + 1, paren_depth - 1, Append(content, ")"))
          ELSE Parsed(content, pos))
    ELSE parse_expression_content(tokens, pos + 1, paren_depth,
                                  content \o TokenText(Cur(tokens, pos)))

\* the @compute / @call / @expr branches of _parse_source, the cursor on the
\* directive token
parse_compute(tokens, pos, compute_type) ==
    LET closed(expr) ==
            IF ~check(tokens, expr.pos, "RPAREN") THEN ParserError(tokens, expr.pos)
            ELSE Parsed(ComputeExpression(expr.node, compute_type), expr.pos + 1)
    IN  IF ~check(tokens, pos + 1, "LPAREN") THEN ParserError(tokens, pos + 1)
        ELSE closed(parse_expression_content(tokens, pos + 2, 1, <<>>))

\* SchemaMapParser._parse_source: NoNode stands for None
parse_source(tokens, pos) ==
    LET merged(p) ==
            IF p.err # "" THEN p
            ELSE IF check(tokens, p.pos, "PLUS")
            THEN parse_merge_expression(tokens, p.pos, p.node, "+")
            ELSE IF check(tokens, p.pos, "DOUBLE_QUESTION")
            THEN parse_merge_expression(tokens, p.pos, p.node, "??")
            ELSE p
    IN  IF check(tokens, pos, "COMPUTE") THEN parse_compute(tokens, pos, "compute")
        ELSE IF check(tokens, pos, "CALL") THEN parse_compute(tokens, pos, "call")
        ELSE IF check(tokens, pos, "EXPR") THEN parse_compute(tokens, pos, "expr")
        ELSE IF check(tokens, pos, "NOW") THEN Parsed(ComputeExpression(<<>>, "now"), pos + 1)
        ELSE IF check(tokens, pos, "UUID") THEN Parsed(ComputeExpression(<<>>, "uuid"), pos + 1)
        ELSE IF check(tokens, pos, "STRING") \/ check(tokens, pos, "NUMBER")
        THEN Parsed(ConstantValue(Cur(tokens, pos).value), pos + 1)
        ELSE IF check(tokens, pos, "IDENTIFIER") \/ check(tokens, pos, "DOT")
        THEN merged(parse_source_path(tokens, pos))
        ELSE Parsed(NoNode, pos)

\* SchemaMapParser._parse_mapping: NoNode stands for None
parse_mapping(tokens, pos) ==
    LET chained(source, target, transforms) ==
            IF transforms.err # "" THEN transforms
            ELSE Parsed(Mapping(source.node, target.node, transforms.node), transforms.pos)
        targeted(source, target) ==
            IF target.err # "" THEN target
            ELSE chained(source, target, parse_transform_chain(tokens, target.pos, <<>>))
        sourced(source) ==
            IF source.err # "" \/ source.node = NoNode THEN source
            ELSE IF ~check(tokens, source.pos, "COLON") THEN ParserError(tokens, source.pos)
            ELSE targeted(source, parse_target(tokens, source.pos + 1))
    IN  sourced(parse_source(tokens, pos))

\* the head of _parse_conditional, up to and including "{": the Condition
parse_condition(tokens, pos) ==
    LET operator ==
            IF check(tokens, pos + 2, "EQUALS") THEN "=="
            ELSE IF check(tokens, pos + 2, "NOT_EQUALS") THEN "!="
            ELSE IF check(tokens, pos + 2, "GREATER") THEN ">"
            ELSE IF check(tokens, pos + 2, "LESS") THEN "<"
            ELSE "=="
        at == IF \E ty \in {"EQUALS", "NOT_EQUALS", "GREATER", "LESS"} :
                    check(tokens, pos + 2, ty)
              THEN pos + 3 ELSE pos + 2
        opened(value) ==
            IF value.err # "" THEN value
            ELSE IF ~check(tokens, value.pos, "LBRACE") THEN ParserError(tokens, value.pos)
            ELSE Parsed(Condition(Cur(tokens, pos + 1).value.v, operator, value.node),
                        value.pos + 1)
    IN  IF ~check(tokens, pos + 1, "IDENTIFIER") THEN ParserError(tokens, pos + 1)
        ELSE opened(parse_value(tokens, at))

\* MappingFile(source_file=filename) as parse creates it
NewMappingFile ==
    [config |-> <<>>, aliases |-> <<>>, lookups |-> <<>>, functions |-> <<>>,
     mappings |-> <<>>]

\* the block a _parse_conditional / _parse_else_block / _parse_nested_block
\* call is collecting: its condition and the mappings of _parse_block_mappings
OpenBlock(kind, condition) == [kind |-> kind, condition |-> condition, mappings |-> <<>>]
\* the node the call returns at the closing brace
BlockNode(b) ==
    IF b.kind = "when" THEN WhenBlock(b.condition, b.mappings)
    ELSE IF b.kind = "else" THEN ElseBlock(b.mappings)
    ELSE NestedBlock(b.mappings)

\* parse(): running, or how it ended; token is ParserError.token
Parsing == [st |-> "running", token |-> NoToken]
ParseReturned == [st |-> "returned", token |-> NoToken]
ParseRaised(token) == [st |-> "ParserError", token |-> token]


---------------------------------------------------------------------------
(* Outcomes held in the state *)

NoResult == [st |-> "none", out |-> VNull, err |-> ""]
Returned(x) == [st |-> "ok", out |-> x, err |-> ""]
Raised(e) == [st |-> "raise", out |-> VNull, err |-> e]

NoCall == [value |-> VNull, t |-> Transform("", <<>>),
           ref |-> NoResult, inl |-> NoResult, gen |-> NoResult]

IdleTransformer ==
    /\ mfile = MappingFile(<<>>, <<>>, <<>>, <<>>)
    /\ record = EmptyMap
    /\ interp = NoResult
    /\ comp = NoResult
    /\ when_state = FALSE
IdlePath == path = <<>> /\ val = VNull /\ data = NoResult /\ got = NoResult
IdleCall == tv = NoCall
IdleRegistry ==
    /\ functions = NoFunctions
    /\ modules = {}
    /\ function_metadata = NoMetadata
    /\ regerr = FALSE

transformerVars == <<mfile, record, interp, comp, when_state>>
pathVars == <<path, val, data, got>>
registryVars == <<functions, modules, function_metadata, regerr>>

IdleLexer == lex = NewLexer /\ toks = <<>> /\ lexout = "idle"
IdleParser ==
    /\ ptoks = <<>>
    /\ ppos = 0
    /\ presult = NewMappingFile
    /\ pblock = NoNode
    /\ ppc = "loop"
    /\ pout = Parsing
lexerState == <<lex, toks, lexout>>
parserVars == <<ptoks, ppos, presult, pblock, ppc, pout>>

\* the position in SchemaMapTransformer.__init__: the step about to run (i
\* indexes the config's functions list), "ready" once it has returned,
\* "raised" with the exception that left it
Building(pc, i) == [pc |-> pc, i |-> i, err |-> ""]
BuildRaised(e) == [pc |-> "raised", i |-> 0, err |-> e]
IdleBuild == tables = <<>> /\ built = Building("none", 0)
buildVars == <<tables, built>>

\* the lexer and the parser, for the specifications that run neither
IdleText == src_text = <<>> /\ IdleLexer /\ IdleParser
textVars == <<src_text, lexerState, parserVars>>

\* no thread is in transform
IdleThreads == context = EmptyMap /\ threads = <<>>
threadVars == <<context, threads>>

\* what the specifications of the transformer's parts leave alone
IdleRest == IdleText /\ IdleBuild /\ IdleThreads
restVars == <<textVars, buildVars, threadVars>>

---------------------------------------------------------------------------
(* Path engine: set_value then get_value on one target dict *)

\* longest path, in segments
MaxSegs == 2
PathNames == {"a", "b"}
PathIndexes == {0, 1, -1}
Subscripts == {<<>>} \cup {<<"[">> \o IntStr(i) \o <<"]">> : i \in PathIndexes}
PathSegments == {<<n>> \o sub : n \in PathNames, sub \in Subscripts}
\* the path strings "seg.seg...": names with at most one numeric subscript each
RECURSIVE PathsOfLength(_)
PathsOfLength(n) ==
    IF n = 1 THEN PathSegments
    ELSE {p \o <<".">> \o seg : p \in PathsOfLength(n - 1), seg \in PathSegments}
Paths == UNION {PathsOfLength(n) : n \in 1..MaxSegs}
PathValues == {VNull, VInt(1), VStr(<<"v">>), VList(<<VInt(1)>>), Dict1("k", VInt(1))}

InitPath ==
    /\ path \in Paths
    /\ val \in PathValues
    /\ data = NoResult
    /\ got = NoResult
    /\ IdleTransformer /\ IdleCall /\ IdleRegistry /\ IdleRest

\* evaluator.set_value(path, val, target) on target = {}
SetValue ==
    /\ data.st = "none"
    /\ LET r == set_value(path, val, EmptyMap)
       IN data' = IF r.err = "" THEN Returned(r.v) ELSE Raised(r.err)
    /\ UNCHANGED <<path, val, got, tv>>
    /\ UNCHANGED transformerVars /\ UNCHANGED registryVars /\ UNCHANGED restVars

\* evaluator.get_value(path, target) on the dict set_value wrote
GetValue ==
    /\ data.st = "ok"
    /\ got.st = "none"
    /\ got' = Returned(get_value(path, data.out))
    /\ UNCHANGED <<path, val, data, tv>>
    /\ UNCHANGED transformerVars /\ UNCHANGED registryVars /\ UNCHANGED restVars

NextPath == SetValue \/ GetValue
SpecPath == InitPath /\ [][NextPath]_vars


---------------------------------------------------------------------------
(* The transformer: one mapping file, built once, fed records *)

Src(segments) == SourcePath(segments, FALSE)
Opt(segments) == SourcePath(segments, TRUE)
NoConfig == [k \in {} |-> VNull]
OmitConfig == [null_handling |-> VStr(<<"omit">>)]
NoAliases == [k \in {} |-> AliasDefinition("", <<>>, <<>>)]
NoLookups == [k \in {} |-> InlineLookup(EmptyMap)]
Plain(mappings) == MappingFile(NoConfig, NoAliases, NoLookups, mappings)

\* a : b | trim
FileTrim == Plain(<<Mapping(Src(<<<<"a">>>>), TargetPath(<<<<"b">>>>), <<Transform("trim", <<>>)>>)>>)
\* { a : b }
FileBlock == Plain(<<NestedBlock(<<Mapping(Src(<<<<"a">>>>), TargetPath(<<<<"b">>>>), <<>>)>>)>>)
\* items[*].x : out[*].y
FanOut ==
    Mapping(Src(<<<<"items", "[", "*", "]">>, <<"x">>>>),
            TargetPath(<<<<"out", "[", "*", "]">>, <<"y">>>>), <<>>)
FileFanOut == Plain(<<FanOut>>)
\* a.b? : c
FileOptional == Plain(<<Mapping(Opt(<<<<"a">>, <<"b">>>>), TargetPath(<<<<"c">>>>), <<>>)>>)
\* @config { null_handling : "omit" }  a.b? : c
FileOptionalOmit ==
    MappingFile(OmitConfig, NoAliases, NoLookups,
                <<Mapping(Opt(<<<<"a">>, <<"b">>>>), TargetPath(<<<<"c">>>>), <<>>)>>)
\* a.b? : c | default("z")
FileOptionalDefault ==
    Plain(<<Mapping(Opt(<<<<"a">>, <<"b">>>>), TargetPath(<<<<"c">>>>),
                    <<Transform("default", <<VStr(<<"z">>)>>)>>)>>)
\* @config { null_handling : "omit" }  a : b  items : c
FileOmit ==
    MappingFile(OmitConfig, NoAliases, NoLookups,
                <<Mapping(Src(<<<<"a">>>>), TargetPath(<<<<"b">>>>), <<>>),
                  Mapping(Src(<<<<"items">>>>), TargetPath(<<<<"c">>>>), <<>>)>>)
\* @config { null_handling : "omit" }  items[*].x : out[*].y  items : deep.c
FileOmitFanOut ==
    MappingFile(OmitConfig, NoAliases, NoLookups,
                <<FanOut, Mapping(Src(<<<<"items">>>>), TargetPath(<<<<"deep">>, <<"c">>>>), <<>>)>>)
\* @lookups { s : {"A": "ACTIVE", "n": 1} }  code : status | lookup(@s)
StatusTable == InlineLookup(Dict2("A", VStr(<<"ACTIVE">>), "n", VInt(1)))
FileLookup ==
    MappingFile(NoConfig, NoAliases, [s |-> StatusTable],
                <<Mapping(Src(<<<<"code">>>>), TargetPath(<<<<"status">>>>),
                          <<Transform("lookup", <<VStr(<<"@", "s">>)>>)>>)>>)
\* @aliases { pre(p) : prefix(p) }  a : b | @pre("X")
AliasPre == AliasDefinition("pre", <<"p">>, <<Transform("prefix", <<VStr(<<"p">>)>>)>>)
FileAliasParam ==
    MappingFile(NoConfig, [pre |-> AliasPre], NoLookups,
                <<Mapping(Src(<<<<"a">>>>), TargetPath(<<<<"b">>>>),
                          <<AliasRef("pre", <<VStr(<<"X">>)>>)>>)>>)
\* @aliases { tu : trim | uppercase }  a : b | @tu
AliasTu == AliasDefinition("tu", <<>>, <<Transform("trim", <<>>), Transform("uppercase", <<>>)>>)
FileAliasChain ==
    MappingFile(NoConfig, [tu |-> AliasTu], NoLookups,
                <<Mapping(Src(<<<<"a">>>>), TargetPath(<<<<"b">>>>), <<AliasRef("tu", <<>>)>>)>>)
\* @when s == "x" { a : t }  @else { b : u }
FileWhenElse ==
    Plain(<<WhenBlock(Condition(<<"s">>, "==", VStr(<<"x">>)),
                      <<Mapping(Src(<<<<"a">>>>), TargetPath(<<<<"t">>>>), <<>>)>>),
            ElseBlock(<<Mapping(Src(<<<<"b">>>>), TargetPath(<<<<"u">>>>), <<>>)>>)>>)
\* names : out | join(",")
FileJoin ==
    Plain(<<Mapping(Src(<<<<"names">>>>), TargetPath(<<<<"out">>>>),
                    <<Transform("join", <<VStr(<<",">>)>>)>>)>>)
\* names : out | count
FileCount ==
    Plain(<<Mapping(Src(<<<<"names">>>>), TargetPath(<<<<"out">>>>), <<Transform("count", <<>>)>>)>>)
\* names : out | uppercase
FileUpperEach ==
    Plain(<<Mapping(Src(<<<<"names">>>>), TargetPath(<<<<"out">>>>),
                    <<Transform("uppercase", <<>>)>>)>>)
\* a + " " + b : c
FileMerge ==
    Plain(<<Mapping(MergeExpression(<<Src(<<<<"a">>>>), StrPart(<<" ">>), Src(<<<<"b">>>>)>>, "+"),
                    TargetPath(<<<<"c">>>>), <<>>)>>)
\* a ?? b : c
FileCoalesce ==
    Plain(<<Mapping(MergeExpression(<<Src(<<<<"a">>>>), Src(<<<<"b">>>>)>>, "??"),
                    TargetPath(<<<<"c">>>>), <<>>)>>)
\* @when n > 1 { a : d }
FileWhenGreater ==
    Plain(<<WhenBlock(Condition(<<"n">>, ">", VInt(1)),
                      <<Mapping(Src(<<<<"a">>>>), TargetPath(<<<<"d">>>>), <<>>)>>)>>)
\* s : o | when("x", "y") | else("z")
FileWhenTransform ==
    Plain(<<Mapping(Src(<<<<"s">>>>), TargetPath(<<<<"o">>>>),
                    <<Transform("when", <<VStr(<<"x">>), VStr(<<"y">>)>>),
                      Transform("else", <<VStr(<<"z">>)>>)>>)>>)
\* a : b | else("z")   s : c | when("x", "y")
FileElseWhen ==
    Plain(<<Mapping(Src(<<<<"a">>>>), TargetPath(<<<<"b">>>>),
                    <<Transform("else", <<VStr(<<"z">>)>>)>>),
            Mapping(Src(<<<<"s">>>>), TargetPath(<<<<"c">>>>),
                    <<Transform("when", <<VStr(<<"x">>), VStr(<<"y">>)>>)>>)>>)
\* a : ~   "k" : c   a : e | required
FileSkip ==
    Plain(<<Mapping(Src(<<<<"a">>>>), SkipTarget, <<>>),
            Mapping(ConstantValue(VStr(<<"k">>)), TargetPath(<<<<"c">>>>), <<>>),
            Mapping(Src(<<<<"a">>>>), TargetPath(<<<<"e">>>>), <<Transform("required", <<>>)>>)>>)

MappingFiles ==
    {FileTrim, FileBlock, FileFanOut, FileOptional, FileOptionalOmit, FileOptionalDefault,
     FileOmit, FileOmitFanOut, FileLookup, FileAliasParam, FileAliasChain, FileWhenElse,
     FileJoin, FileCount, FileUpperEach, FileMerge, FileCoalesce, FileWhenGreater,
     FileWhenTransform, FileElseWhen, FileSkip}

Item(x) == Dict1("x", x)
BaseRecords ==
    {EmptyMap,
     Dict1("a", VInt(1)),
     Dict1("a", VStr(<<" ", "v", " ">>)),
     Dict1("a", Dict1("b", VInt(1))),
     Dict1("a", Dict1("b?", VInt(1))),
     Dict2("a", VInt(0), "b", VInt(2)),
     Dict1("items", VList(<<Item(VInt(1)), Item(VInt(2))>>)),
     Dict1("items", VList(<<Item(VNull), Dict1("z", VInt(1))>>)),
     Dict1("items", VList(<<VInt(5)>>)),
     Dict1("items", EmptyList),
     Dict1("items", VList(<<VNull, VList(<<VNull, VInt(1)>>), Dict1("k", VNull)>>)),
     Dict1("code", VStr(<<"A">>)),
     Dict1("code", VStr(<<"n">>)),
     Dict1("code", Dict1("k", VInt(1))),
     DictPut(Dict2("s", VStr(<<"x">>), "a", VInt(1)), "b", VInt(2)),
     DictPut(Dict2("s", VStr(<<"q">>), "a", VInt(1)), "b", VInt(2)),
     Dict1("names", VList(<<VStr(<<"a">>), VStr(<<"b">>)>>)),
     Dict1("names", EmptyList),
     Dict2("n", VInt(2), "a", VInt(1))}

\* deepest nesting of the values under "items" in the generated records
MaxDepth == 2
\* values nested up to depth n: Null and a number, wrapped in sequences (with
\* and without a leading Null) and in maps
RECURSIVE NestedValues(_)
NestedValues(n) ==
    IF n = 0 THEN {VNull, VInt(1)}
    ELSE LET inner == NestedValues(n - 1)
         IN {VNull, VInt(1)}
            \cup {VList(<<x>>) : x \in inner}
            \cup {VList(<<VNull, x>>) : x \in inner}
            \cup {Dict1("k", x) : x \in inner}
Records == BaseRecords \cup {Dict1("items", x) : x \in NestedValues(MaxDepth)}

Init ==
    /\ mfile \in MappingFiles
    /\ record \in Records
    /\ interp = NoResult
    /\ comp = NoResult
    /\ when_state = FALSE
    /\ IdlePath /\ IdleCall /\ IdleRegistry /\ IdleRest

\* SchemaMapTransformer(mfile).transform(record)
TransformRecord ==
    /\ interp.st = "none"
    /\ \E r \in {transform(mfile, NewEvaluator(mfile, NoFunctions), when_state, record)} :
          /\ interp' = IF r.err = "" THEN Returned(r.target) ELSE Raised(r.err)
          /\ when_state' = r.ws
    /\ UNCHANGED <<mfile, record, comp, tv>>
    /\ UNCHANGED pathVars /\ UNCHANGED registryVars /\ UNCHANGED restVars

\* the class PythonCodeGenerator().generate(mfile) defines: .transform(record)
GeneratedTransformRecord ==
    /\ comp.st = "none"
    /\ \E r \in {generated_transform(mfile, record)} :
          comp' = IF r.err = "" THEN Returned(r.target) ELSE Raised(r.err)
    /\ UNCHANGED <<mfile, record, interp, when_state, tv>>
    /\ UNCHANGED pathVars /\ UNCHANGED registryVars /\ UNCHANGED restVars

\* the caller moves on to another record with the same transformer
NextRecord ==
    /\ interp.st # "none"
    /\ comp.st # "none"
    /\ \E r \in Records \ {record} : record' = r
    /\ interp' = NoResult
    /\ comp' = NoResult
    /\ UNCHANGED <<mfile, when_state, tv>>
    /\ UNCHANGED pathVars /\ UNCHANGED registryVars /\ UNCHANGED restVars

Next == TransformRecord \/ GeneratedTransformRecord \/ NextRecord
Spec == Init /\ [][Next]_vars


---------------------------------------------------------------------------
(* One transform call on one value: by alias reference, written inline, and *)
(* as the generated text                                                    *)

\* @aliases { pre(p) : prefix(p)   tu : trim | uppercase   nest(p) : @pre(p) | trim }
AliasNest ==
    AliasDefinition("nest", <<"p">>,
                    <<AliasRef("pre", <<VStr(<<"p">>)>>), Transform("trim", <<>>)>>)
CallFile ==
    MappingFile(NoConfig, [pre |-> AliasPre, tu |-> AliasTu, nest |-> AliasNest],
                [s |-> StatusTable], <<>>)
Calls ==
    {Transform("lookup", <<VStr(<<"@", "s">>)>>),
     Transform("lookup", <<VStr(<<"s">>)>>),
     Transform("lookup", <<VStr(<<"@", "nope">>)>>),
     Transform("lookup", <<>>),
     Transform("trim", <<>>),
     Transform("to_bool", <<>>),
     AliasRef("pre", <<VStr(<<"X">>)>>),
     AliasRef("tu", <<>>),
     AliasRef("nest", <<VStr(<<"Y">>)>>),
     AliasRef("nosuch", <<>>)}
CallValues ==
    {VNull, VStr(<<"A">>), VStr(<<"n">>), VStr(<<" ", "v", " ">>), VInt(1), VBool(TRUE),
     Dict1("k", VInt(1)), VList(<<VStr(<<"A">>)>>),
     VStr(<<"o", "n">>), VStr(<<"T">>), VStr(<<"Y", "e", "s">>), VStr(<<" ", "y", " ">>),
     VStr(<<"1">>), EmptyStr, VInt(0), VBool(FALSE), EmptyList}

\* the chain of an alias as a mapping would spell it inline: each argument
\* that names a parameter replaced by the reference's argument at that position
InlineArg(a, parameters, args) ==
    IF \E j \in DOMAIN parameters : j <= Len(args) /\ a = VStr(<<parameters[j]>>)
    THEN args[CHOOSE j \in DOMAIN parameters : j <= Len(args) /\ a = VStr(<<parameters[j]>>)]
    ELSE a
InlineChain(alias_def, args) ==
    [i \in DOMAIN alias_def.transforms |->
        [alias_def.transforms[i] EXCEPT
            !.args = [k \in DOMAIN @ |-> InlineArg(@[k], alias_def.parameters, args)]]]

InitCall ==
    /\ tv \in {[NoCall EXCEPT !.value = x, !.t = t] : x \in CallValues, t \in Calls}
    /\ IdleTransformer /\ IdlePath /\ IdleRegistry /\ IdleRest

TOutcome(r) == IF r.err = "" THEN Returned(r.v) ELSE Raised(r.err)

\* evaluator.apply_transform(value, t.name, t.args, t.is_alias)
ApplyTransform ==
    /\ tv.ref.st = "none"
    /\ tv' = [tv EXCEPT !.ref =
                TOutcome(apply_transform(tv.value, tv.t, NewEvaluator(CallFile, NoFunctions), FALSE))]
    /\ UNCHANGED transformerVars /\ UNCHANGED pathVars /\ UNCHANGED registryVars /\ UNCHANGED restVars

\* the same evaluator run over the alias's chain written inline
ApplyInline ==
    /\ tv.inl.st = "none"
    /\ tv.t.is_alias
    /\ tv.t.name \in DOMAIN CallFile.aliases
    /\ tv' = [tv EXCEPT !.inl =
                TOutcome(apply_chain(tv.value,
                                     InlineChain(CallFile.aliases[tv.t.name], tv.t.args),
                                     1, NewEvaluator(CallFile, NoFunctions), FALSE))]
    /\ UNCHANGED transformerVars /\ UNCHANGED pathVars /\ UNCHANGED registryVars /\ UNCHANGED restVars

\* the line "_v = <text>" that _transform_to_code writes for the call
ApplyGenerated ==
    /\ tv.gen.st = "none"
    /\ tv' = [tv EXCEPT !.gen =
                IF transform_to_code(tv.t, CallFile.aliases).kind = "bad"
                THEN Raised("SyntaxError")
                ELSE TOutcome(gen_transform_code(tv.value, tv.t, Generated(CallFile)))]
    /\ UNCHANGED transformerVars /\ UNCHANGED pathVars /\ UNCHANGED registryVars /\ UNCHANGED restVars

NextCall == ApplyTransform \/ ApplyInline \/ ApplyGenerated
SpecCall == InitCall /\ [][NextCall]_vars

---------------------------------------------------------------------------
(* The registry under any sequence of its operations *)

RegisterNames == {"f", "sum", ""}
RegisterFuncs == {FnId, NotCallable}
ModuleNames == {"builtins", "math", "nosuch"}
FunctionNameLists == {<<>>, <<"sqrt", "pi", "nosuch">>}
Prefixes == {"", "m_"}
FilePaths == {"custom.py", "broken.py", "notes.txt", "missing.py"}
FileNameLists == {<<>>, <<"helper">>}
FunctionSpecs ==
    {<<"math", ":", "sqrt">>,
     <<"math", ":", "sqrt", " as ", "sum">>,
     <<"builtins", ":", " ", "len">>,
     <<"math", ":", "pi">>,
     <<"math", "sqrt">>,
     <<"nosuch", ":", "f">>,
     <<"math", ":", "nosuch">>}
UnregisterNames == {"f", "sum", "sqrt"}

InitRegistry ==
    /\ functions = NoFunctions
    /\ modules = {}
    /\ function_metadata = NoMetadata
    /\ regerr = FALSE
    /\ IdleTransformer /\ IdlePath /\ IdleCall /\ IdleRest

Register ==
    /\ \E name \in RegisterNames, func \in RegisterFuncs : register(name, func)
    /\ UNCHANGED transformerVars /\ UNCHANGED pathVars /\ UNCHANGED tv /\ UNCHANGED restVars
RegisterModule ==
    /\ \E module_name \in ModuleNames, function_names \in FunctionNameLists, prefix \in Prefixes :
          register_module(module_name, function_names, prefix)
    /\ UNCHANGED transformerVars /\ UNCHANGED pathVars /\ UNCHANGED tv /\ UNCHANGED restVars
RegisterFile ==
    /\ \E file_path \in FilePaths, function_names \in FileNameLists :
          register_file(file_path, function_names, "")
    /\ UNCHANGED transformerVars /\ UNCHANGED pathVars /\ UNCHANGED tv /\ UNCHANGED restVars
RegisterFromSpec ==
    /\ \E spec \in FunctionSpecs : register_from_spec(spec)
    /\ UNCHANGED transformerVars /\ UNCHANGED pathVars /\ UNCHANGED tv /\ UNCHANGED restVars
Unregister ==
    /\ \E name \in UnregisterNames : unregister(name)
    /\ UNCHANGED transformerVars /\ UNCHANGED pathVars /\ UNCHANGED tv /\ UNCHANGED restVars
Clear ==
    /\ clear
    /\ UNCHANGED transformerVars /\ UNCHANGED pathVars /\ UNCHANGED tv /\ UNCHANGED restVars

NextRegistry ==
    Register \/ RegisterModule \/ RegisterFile \/ RegisterFromSpec \/ Unregister \/ Clear
SpecRegistry == InitRegistry /\ [][NextRegistry]_vars


---------------------------------------------------------------------------
(* The lexer, one _next_token call at a time *)

\* longest source text, in characters
MaxSource == 3
SourceChars == {"a", "1", SuperTwo, "\"", " ", "\n", "@", "=", "-", ".", "#", "\\"}
RECURSIVE TextsOfLength(_)
TextsOfLength(n) ==
    IF n = 0 THEN {<<>>}
    ELSE {Append(s, c) : s \in TextsOfLength(n - 1), c \in SourceChars}
SourceTexts == UNION {TextsOfLength(n) : n \in 0..MaxSource}

InitLex ==
    /\ src_text \in SourceTexts
    /\ lex = NewLexer
    /\ toks = <<>>
    /\ lexout = "running"
    /\ IdleTransformer /\ IdlePath /\ IdleCall /\ IdleRegistry
    /\ IdleParser /\ IdleBuild /\ IdleThreads

\* one iteration of the loop of SchemaMapLexer.tokenize
NextToken ==
    /\ lexout = "running"
    /\ ~AtEnd(src_text, lex)
    /\ \E r \in {next_token(src_text, lex)} :
          /\ lex' = r.lx
          /\ lexout' = IF r.err # "" THEN r.err ELSE lexout
          /\ toks' = IF r.err = "" /\ r.tok # NoToken /\ r.tok.type # "COMMENT"
                     THEN Append(toks, r.tok) ELSE toks
    /\ UNCHANGED src_text
    /\ UNCHANGED transformerVars /\ UNCHANGED pathVars /\ UNCHANGED tv
    /\ UNCHANGED registryVars /\ UNCHANGED parserVars /\ UNCHANGED buildVars /\ UNCHANGED threadVars

\* the end of SchemaMapLexer.tokenize: the EOF token, return self.tokens
EndOfSource ==
    /\ lexout = "running"
    /\ AtEnd(src_text, lex)
    /\ toks' = Append(toks, Token("EOF", VNull, lex.line, lex.column))
    /\ lexout' = "returned"
    /\ UNCHANGED <<src_text, lex>>
    /\ UNCHANGED transformerVars /\ UNCHANGED pathVars /\ UNCHANGED tv
    /\ UNCHANGED registryVars /\ UNCHANGED parserVars /\ UNCHANGED buildVars /\ UNCHANGED threadVars

NextLex == NextToken \/ EndOfSource
SpecLex == InitLex /\ [][NextLex]_vars

---------------------------------------------------------------------------
(* The parser, one loop test or one loop body at a time *)

\* characters of a program text written as words
RECURSIVE Chars(_)
Chars(words) == IF words = <<>> THEN <<>> ELSE Head(words) \o Chars(Tail(words))
\* the words of the programs: each one a sequence of characters
W_when == <<"@", "w", "h", "e", "n">>
W_else == <<"@", "e", "l", "s", "e">>
W_config == <<"@", "c", "o", "n", "f", "i", "g">>
W_aliases == <<"@", "a", "l", "i", "a", "s", "e", "s">>
W_lookups == <<"@", "l", "o", "o", "k", "u", "p", "s">>
W_functions == <<"@", "f", "u", "n", "c", "t", "i", "o", "n", "s">>
W_call == <<"@", "c", "a", "l", "l">>
W_true == <<"t", "r", "u", "e">>

\* the six comparison operators of a Condition, with the source text of each
Comparisons ==
    ("==" :> <<"=", "=">>) @@ ("!=" :> <<"!", "=">>) @@ (">" :> <<">">>)
    @@ ("<" :> <<"<">>) @@ (">=" :> <<">", "=">>) @@ ("<=" :> <<"<", "=">>)
\* fields of a condition: a name, a dotted path
WhenFields == {<<"s">>, <<"o", ".", "s">>}
\* @when <field> <cmp> 1 { a : b }
WhenText(field, cmp) ==
    Chars(<<W_when, <<" ">>, field, <<" ">>, Comparisons[cmp],
            <<" ", "1", " ", "{", " ", "a", " ", ":", " ", "b", " ", "}">>>>)
WhenPrograms == {WhenText(f, c) : f \in WhenFields, c \in DOMAIN Comparisons}

\* programs with every kind of statement
StatementPrograms ==
    {Chars(<<W_config, <<" ", "{", " ", "k", " ", ":", " ", "1", " ", "}", "\n",
             "a", " ", ":", " ", "b", " ", "|", " ", "t">>>>),
     Chars(<<W_aliases, <<" ", "{", " ", "n", " ", ":", " ", "t", " ", "}">>>>),
     Chars(<<W_lookups, <<" ", "{", " ", "n", " ", ":", " ", "{", " ", "k", " ", ":",
             " ", "1", " ", "}", " ", "}">>>>),
     Chars(<<W_functions, <<" ", "{", " ", "f", " ", ":", " ", "\"", "m", ":", "f", "\"",
             " ", "}">>>>),
     Chars(<<W_call, <<"(", "f", ",", "a", ")", " ", ":", " ", "~">>>>),
     Chars(<<W_else, <<" ", "{", "\n", "a", " ", ":", " ", "b", "\n", "}">>>>),
     <<"{", " ", "a", "+", "b", " ", ":", " ", "c", "[", "1", "]", " ", "}">>,
     <<"{", " ", "a", " ", ":", " ", "b">>,
     Chars(<<<<"{", " ">>, W_when, <<" ", "}">>>>),
     Chars(<<<<"a", " ", ":", " ", "b", "\n">>, W_true>>)}

\* every text of at most MaxStray characters over the characters that start
\* the tokens of the grammar
MaxStray == 2
StrayChars == {"a", "1", ":", "{", "}", "~", "?", "|", "$", "\n", "."}
RECURSIVE StrayOfLength(_)
StrayOfLength(n) ==
    IF n = 0 THEN {<<>>}
    ELSE {Append(s, c) : s \in StrayOfLength(n - 1), c \in StrayChars}
StrayPrograms == UNION {StrayOfLength(n) : n \in 0..MaxStray}

Programs == WhenPrograms \cup StatementPrograms \cup StrayPrograms

\* parse(source): lexer.tokenize(), pos = 0, an empty MappingFile
InitParse ==
    /\ src_text \in Programs
    /\ \E t \in {tokenize(src_text)} : t.err = "" /\ ptoks = t.tokens
    /\ ppos = 0
    /\ presult = NewMappingFile
    /\ pblock = NoNode
    /\ ppc = "loop"
    /\ pout = Parsing
    /\ IdleLexer /\ IdleBuild /\ IdleThreads
    /\ IdleTransformer /\ IdlePath /\ IdleCall /\ IdleRegistry

\* the statement parse() reads with the cursor on a token that opens no block
statement(tokens, pos) ==
    IF check(tokens, pos, "CONFIG") THEN parse_config(tokens, pos)
    ELSE IF check(tokens, pos, "ALIASES") THEN parse_aliases(tokens, pos)
    ELSE IF check(tokens, pos, "LOOKUPS") THEN parse_lookups(tokens, pos)
    ELSE IF check(tokens, pos, "FUNCTIONS") THEN parse_functions(tokens, pos)
    ELSE parse_mapping(tokens, pos)

\* what parse() does with the statement's node
with_statement(mf, type, node) ==
    IF type = "CONFIG" THEN [mf EXCEPT !.config = node]
    ELSE IF type = "ALIASES" THEN [mf EXCEPT !.aliases = node]
    ELSE IF type = "LOOKUPS" THEN [mf EXCEPT !.lookups = node]
    ELSE IF type = "FUNCTIONS" THEN [mf EXCEPT !.functions = node]
    ELSE IF node # NoNode THEN [mf EXCEPT !.mappings = Append(@, node)]
    ELSE mf

BlockOpeners == {"WHEN", "ELSE", "LBRACE"}

\* the loop of parse(): "while not self._is_at_end()" holds
ParseLoop ==
    /\ pout.st = "running"
    /\ pblock = NoNode
    /\ ppc = "loop"
    /\ ~is_at_end(ptoks, ppos)
    /\ ppc' = "body"
    /\ UNCHANGED <<src_text, ptoks, ppos, presult, pblock, pout>>
    /\ UNCHANGED lexerState /\ UNCHANGED buildVars /\ UNCHANGED threadVars
    /\ UNCHANGED transformerVars /\ UNCHANGED pathVars /\ UNCHANGED tv
    /\ UNCHANGED registryVars

\* the body of the loop of parse(): a directive block or a mapping
ParseStatement ==
    /\ pout.st = "running"
    /\ pblock = NoNode
    /\ ppc = "body"
    /\ \E p \in {skip_newlines(ptoks, ppos)} :
          /\ ~is_at_end(ptoks, p)
          /\ Cur(ptoks, p).type \notin BlockOpeners
          /\ \E r \in {statement(ptoks, p)} :
                /\ ppos' = r.pos
                /\ pout' = IF r.err # "" THEN ParseRaised(r.token) ELSE pout
                /\ presult' = IF r.err # "" THEN presult
                              ELSE with_statement(presult, Cur(ptoks, p).type, r.node)
    /\ ppc' = "loop"
    /\ UNCHANGED <<src_text, ptoks, pblock>>
    /\ UNCHANGED lexerState /\ UNCHANGED buildVars /\ UNCHANGED threadVars
    /\ UNCHANGED transformerVars /\ UNCHANGED pathVars /\ UNCHANGED tv
    /\ UNCHANGED registryVars

\* _parse_conditional / _parse_else_block / _parse_nested_block up to the
\* loop of _parse_block_mappings
block_head(tokens, pos) ==
    IF check(tokens, pos, "WHEN") THEN parse_condition(tokens, pos)
    ELSE IF check(tokens, pos, "ELSE")
    THEN (IF check(tokens, pos + 1, "LBRACE") THEN Parsed(VNull, pos + 2)
          ELSE ParserError(tokens, pos + 1))
    ELSE Parsed(VNull, pos + 1)

BlockKind(type) ==
    IF type = "WHEN" THEN "when" ELSE IF type = "ELSE" THEN "else" ELSE "nested"

\* the body of the loop of parse(): an @when, @else or { } block opens, up
\* to the test of the loop of _parse_block_mappings
OpenBlockStatement ==
    /\ pout.st = "running"
    /\ pblock = NoNode
    /\ ppc = "body"
    /\ \E p \in {skip_newlines(ptoks, ppos)} :
          /\ ~is_at_end(ptoks, p)
          /\ Cur(ptoks, p).type \in BlockOpeners
          /\ \E r \in {block_head(ptoks, p)} :
                /\ ppos' = IF r.err # "" THEN r.pos ELSE skip_newlines(ptoks, r.pos)
                /\ pout' = IF r.err # "" THEN ParseRaised(r.token) ELSE pout
                /\ pblock' = IF r.err # "" THEN pblock
                             ELSE OpenBlock(BlockKind(Cur(ptoks, p).type), r.node)
    /\ ppc' = "loop"
    /\ UNCHANGED <<src_text, ptoks, presult>>
    /\ UNCHANGED lexerState /\ UNCHANGED buildVars /\ UNCHANGED threadVars
    /\ UNCHANGED transformerVars /\ UNCHANGED pathVars /\ UNCHANGED tv
    /\ UNCHANGED registryVars

\* the loop of _parse_block_mappings: "while not self._check(RBRACE) and not
\* self._is_at_end()" holds
BlockLoop ==
    /\ pout.st = "running"
    /\ pblock # NoNode
    /\ ppc = "loop"
    /\ ~check(ptoks, ppos, "RBRACE")
    /\ ~is_at_end(ptoks, ppos)
    /\ ppc' = "body"
    /\ UNCHANGED <<src_text, ptoks, ppos, presult, pblock, pout>>
    /\ UNCHANGED lexerState /\ UNCHANGED buildVars /\ UNCHANGED threadVars
    /\ UNCHANGED transformerVars /\ UNCHANGED pathVars /\ UNCHANGED tv
    /\ UNCHANGED registryVars

\* the body of the loop of _parse_block_mappings
BlockMapping ==
    /\ pout.st = "running"
    /\ pblock # NoNode
    /\ ppc = "body"
    /\ \E r \in {parse_mapping(ptoks, ppos)} :
          /\ ppos' = IF r.err # "" THEN r.pos ELSE skip_newlines(ptoks, r.pos)
          /\ pout' = IF r.err # "" THEN ParseRaised(r.token) ELSE pout
          /\ pblock' = IF r.err = "" /\ r.node # NoNode
                       THEN [pblock EXCEPT !.mappings = Append(@, r.node)]
                       ELSE pblock
    /\ ppc' = "loop"
    /\ UNCHANGED <<src_text, ptoks, presult>>
    /\ UNCHANGED lexerState /\ UNCHANGED buildVars /\ UNCHANGED threadVars
    /\ UNCHANGED transformerVars /\ UNCHANGED pathVars /\ UNCHANGED tv
    /\ UNCHANGED registryVars

\* the loop of _parse_block_mappings ends: self._expect(RBRACE), and parse()
\* appends the block
CloseBlock ==
    /\ pout.st = "running"
    /\ pblock # NoNode
    /\ ppc = "loop"
    /\ check(ptoks, ppos, "RBRACE") \/ is_at_end(ptoks, ppos)
    /\ IF check(ptoks, ppos, "RBRACE")
       THEN /\ presult' = [presult EXCEPT !.mappings = Append(@, BlockNode(pblock))]
            /\ ppos' = ppos + 1
            /\ pblock' = NoNode
            /\ pout' = pout
       ELSE /\ pout' = ParseRaised(Cur(ptoks, ppos))
            /\ UNCHANGED <<presult, ppos, pblock>>
    /\ UNCHANGED <<src_text, ptoks, ppc>>
    /\ UNCHANGED lexerState /\ UNCHANGED buildVars /\ UNCHANGED threadVars
    /\ UNCHANGED transformerVars /\ UNCHANGED pathVars /\ UNCHANGED tv
    /\ UNCHANGED registryVars

\* the loop of parse() ends, at its test or at the break after
\* _skip_newlines: return result
ParseReturn ==
    /\ pout.st = "running"
    /\ pblock = NoNode
    /\ \/ ppc = "loop" /\ is_at_end(ptoks, ppos) /\ ppos' = ppos
       \/ /\ ppc = "body"
          /\ is_at_end(ptoks, skip_newlines(ptoks, ppos))
          /\ ppos' = skip_newlines(ptoks, ppos)
    /\ pout' = ParseReturned
    /\ UNCHANGED <<src_text, ptoks, presult, pblock, ppc>>
    /\ UNCHANGED lexerState /\ UNCHANGED buildVars /\ UNCHANGED threadVars
    /\ UNCHANGED transformerVars /\ UNCHANGED pathVars /\ UNCHANGED tv
    /\ UNCHANGED registryVars

NextParse ==
    \/ ParseLoop \/ ParseStatement \/ OpenBlockStatement
    \/ BlockLoop \/ BlockMapping \/ CloseBlock \/ ParseReturn
\* the interpreter keeps running the loop it is in
SpecParse == InitParse /\ [][NextParse]_vars /\ WF_vars(NextParse)


---------------------------------------------------------------------------
(* The transformer from its construction on: __init__ step by step, then    *)
(* register_function and transform                                          *)

\* a MappingFile with its functions block (name -> FunctionDefinition)
Declared(config, lookups, fdefs, mappings) ==
    [config |-> config, aliases |-> NoAliases, lookups |-> lookups,
     functions |-> fdefs, mappings |-> mappings]
NoDeclarations == [k \in {} |-> FunctionDefinition("", <<>>, VNull)]
Calling(mappings) == Declared(NoConfig, NoLookups, NoDeclarations, mappings)

Out == TargetPath(<<<<"out">>>>)
X_boom == <<"b", "o", "o", "m", "(", "a", ")">>
X_ident == <<"i", "d", "e", "n", "t">>

\* @compute(boom(a)) : out
FileComputeBoom == Calling(<<Mapping(ComputeExpression(X_boom, "compute"), Out, <<>>)>>)
\* @call(boom, a) : out
FileCallBoom ==
    Calling(<<Mapping(ComputeExpression(<<"b", "o", "o", "m", ",", "a">>, "call"),
                      Out, <<>>)>>)
\* a : out | boom
FileChainBoom == Calling(<<Mapping(Src(<<<<"a">>>>), Out, <<Transform("boom", <<>>)>>)>>)
\* @compute(ident(boom(a))) : out
FileNestedBoom ==
    Calling(<<Mapping(ComputeExpression(X_ident \o <<"(">> \o X_boom \o <<")">>, "compute"),
                      Out, <<>>)>>)
\* @call(ident, boom(a)) : out
FileCallNested ==
    Calling(<<Mapping(ComputeExpression(X_ident \o <<",">> \o X_boom, "call"),
                      Out, <<>>)>>)
\* @compute(ident(a)) : out | boom
FileComputeChain ==
    Calling(<<Mapping(ComputeExpression(X_ident \o <<"(", "a", ")">>, "compute"),
                      Out, <<Transform("boom", <<>>)>>)>>)
\* @call(boom, a) : ~   a : out
FileSkipCall ==
    Calling(<<Mapping(ComputeExpression(<<"b", "o", "o", "m", ",", "a">>, "call"),
                      SkipTarget, <<>>),
              Mapping(Src(<<<<"a">>>>), Out, <<>>)>>)
\* @compute(boom(a)) : ~   a : out
FileSkipCompute ==
    Calling(<<Mapping(ComputeExpression(X_boom, "compute"), SkipTarget, <<>>),
              Mapping(Src(<<<<"a">>>>), Out, <<>>)>>)
\* @functions { root : "math:sqrt"  f : "nosuch:f" }   @call(root, a) : out
FileDeclared ==
    Declared(NoConfig, NoLookups,
             [root |-> FunctionDefinition("root",
                           <<"m", "a", "t", "h", ":", "s", "q", "r", "t">>, VNull),
              f |-> FunctionDefinition("f", <<"n", "o", "s", "u", "c", "h", ":", "f">>, VNull)],
             <<Mapping(ComputeExpression(<<"r", "o", "o", "t", ",", "a">>, "call"),
                       Out, <<>>)>>)
\* @config { functions_module : "math"  functions_file : "custom.py"
\*           functions : ["math:sqrt as root", "nosuch:f"] }   a : out
FileConfigured ==
    Declared([functions_module |-> VStr(<<"math">>),
              functions_file |-> VStr(<<"custom.py">>),
              functions |-> VList(<<VStr(<<"math", ":", "sqrt", " as ", "root">>),
                                    VStr(<<"nosuch", ":", "f">>)>>)],
             NoLookups, NoDeclarations, <<Mapping(Src(<<<<"a">>>>), Out, <<>>)>>)
\* @config { functions_module : "nosuch"  functions_file : "broken.py"
\*           functions : "math:sqrt" }   a : out
FileConfiguredBadly ==
    Declared([functions_module |-> VStr(<<"nosuch">>),
              functions_file |-> VStr(<<"broken.py">>),
              functions |-> VStr(<<"math", ":", "sqrt">>)],
             NoLookups, NoDeclarations, <<Mapping(Src(<<<<"a">>>>), Out, <<>>)>>)
\* @config { functions_file : "custom.py" }   @compute(count(a)) : out
FileConfiguredCount ==
    Declared([functions_file |-> VStr(<<"custom.py">>)], NoLookups, NoDeclarations,
             <<Mapping(ComputeExpression(<<"c", "o", "u", "n", "t", "(", "a", ")">>, "compute"),
                       Out, <<>>)>>)
\* @compute(a + b * c) : out, the expression as the parser stores it
FileAddMul ==
    Calling(<<Mapping(ComputeExpression(<<"a", "+", "b", "*", "c">>, "compute"), Out, <<>>)>>)
\* @compute(a - b - c) : out
FileSubSub ==
    Calling(<<Mapping(ComputeExpression(<<"a", "-", "b", "-", "c">>, "compute"), Out, <<>>)>>)
\* @compute(sum(a[*].p) * k) : out
FileSumTimes ==
    Calling(<<Mapping(ComputeExpression(<<"s", "u", "m", "(", "a", "[", "*", "]", ".", "p",
                                          ")", "*", "k">>, "compute"), Out, <<>>)>>)
\* @lookups { t : "<file>" }   a : out | lookup(@t)
FileLookupFrom(file) ==
    Declared(NoConfig, [t |-> LookupFile(<<file>>)], NoDeclarations,
             <<Mapping(Src(<<<<"a">>>>), Out, <<Transform("lookup", <<VStr(<<"@", "t">>)>>)>>)>>)
LookupPaths == {"codes.json", "broken.json", "latin1.json", "missing.json"}

BuildFiles ==
    {FileComputeBoom, FileCallBoom, FileChainBoom, FileNestedBoom, FileCallNested,
     FileComputeChain, FileSkipCall, FileSkipCompute, FileDeclared, FileConfigured,
     FileConfiguredBadly, FileConfiguredCount, FileAddMul, FileSubSub,
     FileSumTimes}
    \cup {FileLookupFrom(file) : file \in LookupPaths}

BuildRecords ==
    {EmptyMap,
     Dict1("a", VStr(<<"A">>)),
     Dict1("a", VList(<<VStr(<<"A">>)>>)),
     Dict1("a", EmptyList),
     Dict1("a", Dict1("k", VInt(1))),
     DictPut(Dict2("a", VInt(2), "b", VInt(3)), "c", VInt(4)),
     Dict2("a", VList(<<Dict1("p", VInt(1)), Dict1("p", VInt(2))>>), "k", VInt(10))}

\* the functions a caller hands to register_function, by name
Callables == [boom |-> FnRaise, ident |-> FnId]

\* SchemaMapTransformer(mfile) is called
InitBuild ==
    /\ mfile \in BuildFiles
    /\ record \in BuildRecords
    /\ interp = NoResult
    /\ comp = NoResult
    /\ when_state = FALSE
    /\ tables = <<>>
    /\ built = Building("lookups", 0)
    /\ IdleRegistry /\ IdlePath /\ IdleCall /\ IdleText /\ IdleThreads

\* __init__: self.lookups = self._load_lookups(mapping_file.lookups)
LoadLookups ==
    /\ built.pc = "lookups"
    /\ \E r \in {load_lookups(mfile.lookups)} :
          /\ tables' = IF r.err = "" THEN r.v ELSE tables
          /\ built' = IF r.err = "" THEN Building("functions_module", 0)
                      ELSE BuildRaised(r.err)
    /\ UNCHANGED transformerVars /\ UNCHANGED registryVars
    /\ UNCHANGED pathVars /\ UNCHANGED tv /\ UNCHANGED textVars /\ UNCHANGED threadVars

\* _load_configured_functions: the functions_module entry of the config
LoadFunctionsModule ==
    /\ built.pc = "functions_module"
    /\ \E functions_module \in {ConfigGet(mfile.config, "functions_module")} :
          IF Truthy(functions_module)
          THEN register_module(Cat(functions_module.v), <<>>, "")
          ELSE UNCHANGED registryVars
    /\ built' = Building("functions_file", 0)
    /\ UNCHANGED tables /\ UNCHANGED transformerVars
    /\ UNCHANGED pathVars /\ UNCHANGED tv /\ UNCHANGED textVars /\ UNCHANGED threadVars

\* _load_configured_functions: the functions_file entry of the config
LoadFunctionsFile ==
    /\ built.pc = "functions_file"
    /\ \E functions_file \in {ConfigGet(mfile.config, "functions_file")} :
          IF Truthy(functions_file)
          THEN register_file(Cat(functions_file.v), <<>>, "")
          ELSE UNCHANGED registryVars
    /\ built' = Building("functions", 1)
    /\ UNCHANGED tables /\ UNCHANGED transformerVars
    /\ UNCHANGED pathVars /\ UNCHANGED tv /\ UNCHANGED textVars /\ UNCHANGED threadVars

\* self.config.get('functions', [])
functions_specs(config) ==
    IF "functions" \in DOMAIN config THEN config["functions"] ELSE EmptyList

\* _load_configured_functions: one iteration of the loop over the specs
LoadFunctionSpec ==
    /\ built.pc = "functions"
    /\ IsList(functions_specs(mfile.config))
    /\ built.i <= Len(functions_specs(mfile.config).v)
    /\ register_from_spec(functions_specs(mfile.config).v[built.i].v)
    /\ built' = Building("functions", built.i + 1)
    /\ UNCHANGED tables /\ UNCHANGED transformerVars
    /\ UNCHANGED pathVars /\ UNCHANGED tv /\ UNCHANGED textVars /\ UNCHANGED threadVars

\* the end of __init__: the evaluator is created over self.lookups,
\* self.aliases and the registry's _functions
FinishBuild ==
    /\ built.pc = "functions"
    /\ IsList(functions_specs(mfile.config))
          => built.i > Len(functions_specs(mfile.config).v)
    /\ built' = Building("ready", 0)
    /\ UNCHANGED tables /\ UNCHANGED transformerVars /\ UNCHANGED registryVars
    /\ UNCHANGED pathVars /\ UNCHANGED tv /\ UNCHANGED textVars /\ UNCHANGED threadVars

\* SchemaMapTransformer.register_function(name, func)
RegisterFunction ==
    /\ built.pc = "ready"
    /\ interp.st = "none"
    /\ \E name \in DOMAIN Callables :
          /\ name \notin DOMAIN functions
          /\ register(name, Callables[name])
    /\ UNCHANGED buildVars /\ UNCHANGED transformerVars
    /\ UNCHANGED pathVars /\ UNCHANGED tv /\ UNCHANGED textVars /\ UNCHANGED threadVars

\* SchemaMapTransformer.transform(record) on the transformer built
TransformBuilt ==
    /\ built.pc = "ready"
    /\ interp.st = "none"
    /\ \E r \in {transform(mfile, Evaluator(mfile.aliases, tables, functions),
                           when_state, record)} :
          /\ interp' = IF r.err = "" THEN Returned(r.target) ELSE Raised(r.err)
          /\ when_state' = r.ws
    /\ UNCHANGED <<mfile, record, comp>>
    /\ UNCHANGED buildVars /\ UNCHANGED registryVars
    /\ UNCHANGED pathVars /\ UNCHANGED tv /\ UNCHANGED textVars /\ UNCHANGED threadVars

NextBuild ==
    \/ LoadLookups \/ LoadFunctionsModule \/ LoadFunctionsFile \/ LoadFunctionSpec
    \/ FinishBuild \/ RegisterFunction \/ TransformBuilt
SpecBuild == InitBuild /\ [][NextBuild]_vars

---------------------------------------------------------------------------
(* Two threads in transform on one transformer: each runs the loop over the *)
(* mapping items for its own record; the evaluator (its context and its     *)
(* _when_state) is the one object both use                                  *)

Threads == {1, 2}

\* s : c | when("x", "y")   a : b | else("z")
FileWhenThenElse ==
    Plain(<<Mapping(Src(<<<<"s">>>>), TargetPath(<<<<"c">>>>),
                    <<Transform("when", <<VStr(<<"x">>), VStr(<<"y">>)>>)>>),
            Mapping(Src(<<<<"a">>>>), TargetPath(<<<<"b">>>>),
                    <<Transform("else", <<VStr(<<"z">>)>>)>>)>>)
ThreadFiles == {FileWhenThenElse, FileWhenTransform, FileTrim, FileOmit}
ThreadRecords ==
    {DictPut(Dict2("s", VStr(<<"x">>), "a", VInt(1)), "b", VInt(2)),
     DictPut(Dict2("s", VStr(<<"q">>), "a", VInt(1)), "b", VInt(2)),
     Dict1("a", VStr(<<" ", "v", " ">>))}

\* a thread that has not called transform yet, with the record it will pass;
\* i is the index of the mapping item its loop is at
Waiting(source_data) ==
    [record |-> source_data, st |-> "waiting", i |-> 0, target |-> EmptyMap, err |-> ""]

InitThreads ==
    /\ mfile \in ThreadFiles
    /\ threads \in [Threads -> {Waiting(r) : r \in ThreadRecords}]
    /\ context = EmptyMap
    /\ when_state = FALSE
    /\ record = EmptyMap
    /\ interp = NoResult
    /\ comp = NoResult
    /\ IdlePath /\ IdleCall /\ IdleRegistry /\ IdleText /\ IdleBuild

\* transform(source_data), its first statements:
\* self.evaluator.context = source_data; target_data = {}
EnterTransform(th) ==
    /\ threads[th].st = "waiting"
    /\ context' = threads[th].record
    /\ threads' = [threads EXCEPT ![th].st = "running", ![th].i = 1]
    /\ UNCHANGED transformerVars /\ UNCHANGED pathVars /\ UNCHANGED tv
    /\ UNCHANGED registryVars /\ UNCHANGED textVars /\ UNCHANGED buildVars

\* one iteration of `for mapping_item in self.mapping_file.mappings`
ApplyMappingItem(th) ==
    /\ threads[th].st = "running"
    /\ threads[th].i <= Len(mfile.mappings)
    /\ \E r \in {apply_mapping_item(mfile.mappings[threads[th].i], threads[th].record,
                                    Run(threads[th].target, when_state), mfile.config,
                                    NewEvaluator(mfile, NoFunctions))} :
          /\ when_state' = r.ws
          /\ threads' = [threads EXCEPT
                            ![th].target = r.target,
                            ![th].i = @ + 1,
                            ![th].st = IF r.err # "" THEN "raise" ELSE @,
                            ![th].err = r.err]
    /\ UNCHANGED <<mfile, record, interp, comp, context>>
    /\ UNCHANGED pathVars /\ UNCHANGED tv
    /\ UNCHANGED registryVars /\ UNCHANGED textVars /\ UNCHANGED buildVars

\* the end of transform: the null_handling pass and return target_data
ReturnTarget(th) ==
    /\ threads[th].st = "running"
    /\ threads[th].i > Len(mfile.mappings)
    /\ threads' = [threads EXCEPT
                      ![th].st = "returned",
                      ![th].target =
                          IF ConfigGet(mfile.config, "null_handling") = VStr(<<"omit">>)
                          THEN remove_nulls(@) ELSE @]
    /\ UNCHANGED context /\ UNCHANGED transformerVars /\ UNCHANGED pathVars /\ UNCHANGED tv
    /\ UNCHANGED registryVars /\ UNCHANGED textVars /\ UNCHANGED buildVars

NextThreads ==
    \E th \in Threads : EnterTransform(th) \/ ApplyMappingItem(th) \/ ReturnTarget(th)
SpecThreads == InitThreads /\ [][NextThreads]_vars

---------------------------------------------------------------------------
(* Properties *)

BothRan == interp.st # "none" /\ comp.st # "none"

\* C1: backend equivalence.  For every mapping file and every record, the
\* generated transformer returns the same output as the interpreter's
\* transform, bare { } blocks, transforms on Null, optional sources, lookups
\* and wildcard targets included.
C1_BackendEquivalence == BothRan => interp = comp

\* C2: round-trip path law.  For every path without a wildcard (names and
\* numeric indices, negative ones included) and every value, set_value on
\* the empty map does not raise and get_value of the same path then returns
\* the value.
C2_RoundTrip ==
    /\ data.st # "raise"
    /\ got.st = "ok" => got.out = val

\* the path string items[i].x, i counted from 0
ItemX(i) == <<"items", "[">> \o IntStr(i) \o <<"]", ".", "x">>

\* C3: wildcard fan-out law.  For a record whose items array has n elements,
\* the interpreter running the single mapping items[*].x : out[*].y produces
\* out as an array of exactly n elements with out[i].y equal to items[i].x.
C3_WildcardFanOut ==
    (/\ mfile = FileFanOut
     /\ HasKey(record, "items") /\ IsList(DictGet(record, "items"))
     /\ interp.st # "none")
    => /\ interp.st = "ok"
       /\ HasKey(interp.out, "out")
       /\ LET items == DictGet(record, "items").v
              out == DictGet(interp.out, "out")
          IN /\ IsList(out)
             /\ Len(out.v) = Len(items)
             /\ \A i \in DOMAIN items :
                   /\ IsMap(out.v[i])
                   /\ DictGet(out.v[i], "y") = get_value(ItemX(i - 1), record)

\* the record holds a value at a.b
HasAB(r) ==
    /\ HasKey(r, "a")
    /\ IsMap(DictGet(r, "a"))
    /\ HasKey(DictGet(r, "a"), "b")

\* C4: optional-skip law.  When the interpreter applies a mapping a.b? : c
\* to a record in which a.b is missing, the output has no key c, under
\* null_handling "omit" or the default, whatever transform chain follows.
C4_OptionalSkip ==
    (/\ mfile \in {FileOptional, FileOptionalOmit, FileOptionalDefault}
     /\ ~HasAB(record)
     /\ interp.st # "none")
    => /\ interp.st = "ok"
       /\ ~HasKey(interp.out, "c")

\* no Null anywhere in x: no Null-valued key at any depth, no Null element
RECURSIVE NoNull(_)
NoNull(x) ==
    IF IsNull(x) THEN FALSE
    ELSE IF IsMap(x) THEN \A k \in DOMAIN x.v : NoNull(x.v[k])
    ELSE IF IsList(x) THEN \A i \in DOMAIN x.v : NoNull(x.v[i])
    ELSE TRUE

OmitSet == ConfigGet(mfile.config, "null_handling") = VStr(<<"omit">>)

\* C5: null-omission law.  When @config sets null_handling to "omit", the
\* value transform returns contains no Null anywhere, at any depth of maps
\* and sequences, for every record and mapping file.
C5_NullOmission == (OmitSet /\ interp.st = "ok") => NoNull(interp.out)

\* a transform under "omit" returned a nested value from a record that holds
\* Nulls inside sequences and maps
C5_Witness ==
    /\ OmitSet
    /\ interp.st = "ok"
    /\ ~NoNull(record)
    /\ \E k \in DOMAIN interp.out.v : IsList(interp.out.v[k]) \/ IsMap(interp.out.v[k])
    /\ \E k \in DOMAIN record.v :
          /\ IsList(record.v[k])
          /\ \E i \in DOMAIN record.v[k].v : ~IsNull(record.v[k].v[i]) /\ ~NoNull(record.v[k].v[i])

\* C6: alias idempotence.  For every alias (with or without parameters,
\* aliases that reference aliases included) and every value, applying the
\* alias by reference gives the same result as its chain written inline with
\* the parameters replaced by the reference's arguments.
C6_AliasIdempotence ==
    (tv.ref.st # "none" /\ tv.inl.st # "none") => tv.ref = tv.inl

\* the table a lookup argument names, as the mapping file declares it
NamedTable(arg) ==
    LET n == IF Head(arg.v) = "@" THEN Cat(Tail(arg.v)) ELSE Cat(arg.v)
    IN IF n \in DOMAIN CallFile.lookups THEN CallFile.lookups[n].table ELSE EmptyMap

\* C7: the lookup transform never raises.  For every value (scalar, Null or
\* map) and every table name it returns the table's mapped value verbatim
\* when the value is a key of the named table, and the value unchanged when
\* the key or the whole table is absent.
C7_LookupNeverRaises ==
    (/\ ~tv.t.is_alias /\ tv.t.name = "lookup" /\ tv.t.args # <<>>
     /\ ~IsList(tv.value)
     /\ tv.ref.st # "none")
    => LET table == NamedTable(tv.t.args[1])
           hit == IsStr(tv.value) /\ Cat(tv.value.v) \in DOMAIN table.v
       IN tv.ref = Returned(IF hit THEN table.v[Cat(tv.value.v)] ELSE tv.value)

\* C8: reserved-name invariant.  After any sequence of registry operations
\* (register, register_module, register_file, register_from_spec with or
\* without "as alias", unregister, clear) no reserved name is a registered
\* function name.
C8_ReservedNames == DOMAIN functions \cap reserved_names = {}

\* C9: an @else block runs if and only if the nearest preceding @when at the
\* same level evaluated to false, so exactly one of the two bodies runs.
C9_ElseIffWhenFalse ==
    (mfile = FileWhenElse /\ interp.st # "none")
    => LET holds == PyEq(get_value(<<"s">>, record), VStr(<<"x">>))
       IN /\ interp.st = "ok"
          /\ HasKey(interp.out, "t") <=> holds
          /\ HasKey(interp.out, "u") <=> ~holds

NamesIn(r) == DictGet(r, "names").v

\* C10: when a Sequence enters a transform chain, a transform that is not
\* array-aware is applied to each element, and an array-aware one (join,
\* count, ...) receives the whole Sequence: join(",") on n strings yields one
\* string and count yields n.
C10_ArrayAware ==
    (/\ HasKey(record, "names") /\ IsList(DictGet(record, "names"))
     /\ interp.st # "none")
    => /\ mfile = FileJoin =>
            interp = Returned(Dict1("out", VStr(JoinWith(StrEach(NamesIn(record)), <<",">>))))
       /\ mfile = FileCount =>
            interp = Returned(Dict1("out", VInt(Len(NamesIn(record)))))
       /\ mfile = FileUpperEach =>
            interp = Returned(Dict1("out",
                        VList([i \in DOMAIN NamesIn(record) |->
                                  VStr(StrUpper(NamesIn(record)[i].v))])))

\* C11: parse terminates on every token stream: it returns a MappingFile or
\* raises ParserError carrying the offending token (its line and column); a
\* token that cannot start a statement is not re-examined forever.
C11_ParseTerminates ==
    <>(\/ pout.st = "returned"
       \/ pout.st = "ParserError" /\ pout.token # NoToken)

\* C16: for every field that is a path and each of the six comparison
\* operators, "@when <field> <cmp> 1 { a : b }" is accepted, and the block
\* parse returns holds exactly that field, that operator and that literal.
C16_WhenAccepted ==
    \A f \in WhenFields, c \in DOMAIN Comparisons :
        src_text = WhenText(f, c) =>
            /\ pout.st # "ParserError"
            /\ pout.st = "returned" =>
                  presult.mappings =
                      <<WhenBlock(Condition(f, c, VInt(1)),
                                  <<Mapping(SourcePath(<<<<"a">>>>, FALSE),
                                            TargetPath(<<<<"b">>>>), <<>>)>>)>>

\* C20: tokenize fails only with LexerError; when it returns, the token list
\* ends with an EOF token and holds no other EOF token.
C20_TokenizeTotal ==
    /\ lexout \in {"idle", "running", "returned", "LexerError"}
    /\ lexout = "returned" =>
          /\ toks # <<>>
          /\ \A i \in DOMAIN toks : toks[i].type = "EOF" <=> i = Len(toks)


\* the transformer is built, boom is registered and raises on every call
BoomRegistered ==
    built.pc = "ready" /\ "boom" \in DOMAIN functions /\ functions["boom"] = FnRaise
\* transform raised an error that names boom
NamesBoom ==
    /\ interp.st = "raise"
    /\ interp.err \in {ExternalFunctionError("boom"), FunctionRegistryError("boom")}
\* the outcome of this state's transform call had boom behaved as f does
OutcomeWith(f) ==
    LET outcome(r) == IF r.err = "" THEN Returned(r.target) ELSE Raised(r.err)
    IN  outcome(transform(mfile,
                          Evaluator(mfile.aliases, tables, FnPut(functions, "boom", f)),
                          FALSE, record))

\* C12: when a registered external function raises during a transform call
\* (in @compute, in @call, as a transform of a chain, or nested in another
\* call's arguments), transform raises an error naming the function and
\* returns no output.  A call that does not raise such an error never
\* invoked the function: its outcome is the one it has whatever the function
\* does; and the mapping files that invoke boom for every record raise.
C12_FailurePropagates ==
    (BoomRegistered /\ interp.st # "none") =>
        /\ NamesBoom \/ \A f \in {FnId, FnOne} : OutcomeWith(f) = interp
        /\ mfile \in {FileComputeBoom, FileCallBoom} => NamesBoom
        /\ (mfile \in {FileNestedBoom, FileCallNested} /\ "ident" \in DOMAIN functions)
              => NamesBoom
        /\ (mfile = FileChainBoom /\ DictGet(record, "a") # EmptyList) => NamesBoom
C12_Witness ==
    /\ BoomRegistered
    /\ mfile = FileCallNested
    /\ "ident" \in DOMAIN functions
    /\ interp = Raised(ExternalFunctionError("boom"))

\* C17: a mapping whose target is ~ still evaluates its source, so a
\* registered function named in its @call / @compute is invoked and its
\* failure propagates out of transform.
C17_SkipEvaluatesSource ==
    (BoomRegistered /\ interp.st # "none" /\ mfile \in {FileSkipCall, FileSkipCompute})
        => NamesBoom

\* a spec register_from_spec can load
Loadable(spec) ==
    LET ps == ParseSpec(spec)
    IN  /\ ps.ok
        /\ ps.module_path \in DOMAIN Importable
        /\ ps.func_name \in DOMAIN Importable[ps.module_path].attrs
        /\ Importable[ps.module_path].attrs[ps.func_name].callable

\* C18: construction never aborts on a declaration of the @functions block,
\* and once it has finished every declared name is registered if and only
\* if its spec can be loaded.
C18_DeclaredRegistered ==
    \A name \in DOMAIN mfile.functions :
        /\ built.pc # "raised"
        /\ built.pc = "ready" =>
              (name \in DOMAIN functions <=> Loadable(mfile.functions[name].spec))

\* a lookup file that is missing or does not hold valid JSON
Unloadable(file) ==
    \/ file \notin DOMAIN LookupFiles
    \/ ~LookupFiles[file].decodes
    \/ LookupFiles[file].json.err # ""

\* C19: with a lookup table whose file is missing or is not valid JSON,
\* construction completes, the table is empty, and lookup by that table
\* returns its input value.
C19_LookupLoadSwallowed ==
    \A file \in LookupPaths :
        (mfile = FileLookupFrom(file) /\ Unloadable(file)) =>
            /\ built.pc # "raised"
            /\ built.pc = "ready" => tables["t"] = EmptyMap
            /\ interp.st # "none" =>
                  interp = Returned(Dict1("out", DictGet(record, "a")))

\* the outcome a freshly constructed transformer gives for this state's record
FreshOutcome ==
    LET outcome(r) == IF r.err = "" THEN Returned(r.target) ELSE Raised(r.err)
    IN  outcome(transform(mfile, NewEvaluator(mfile, NoFunctions), FALSE, record))

\* C13: transforming a record leaves no state behind.  Whatever records the
\* transformer was given before, the result of a transform call is the one
\* a freshly constructed transformer gives for that record alone.
C13_NoStateLeftBehind == interp.st # "none" => interp = FreshOutcome

\* the strs the claim takes for true, trimmed and upper-cased
YesWords == {<<"Y">>, <<"Y", "E", "S">>, <<"T", "R", "U", "E">>, <<"1">>, <<"T">>}

\* C15: to_bool returns true if and only if its input is a str whose
\* trimmed, upper-cased form is one of Y, YES, TRUE, 1, T, and false for
\* every other input; in the interpreter and in the generated code alike.
C15_ToBool ==
    tv.t = Transform("to_bool", <<>>) =>
        LET yes == VBool(IsStr(tv.value) /\ StrUpper(StrStrip(tv.value.v)) \in YesWords)
        IN  /\ tv.ref.st # "none" => tv.ref = Returned(yes)
            /\ tv.gen.st # "none" => tv.gen = Returned(yes)

\* what transform gives for a record when no other call is in progress
Sequential(source_data) ==
    transform(mfile, NewEvaluator(mfile, NoFunctions), FALSE, source_data)

\* C14: two threads in transform on the same transformer, each with its own
\* record, each return the output a sequential call gives for their record,
\* whatever the interleaving of their updates of the shared evaluator.
C14_ThreadsAgree ==
    \A th \in Threads :
        /\ threads[th].st # "raise"
        /\ threads[th].st = "returned" =>
              threads[th].target = Sequential(threads[th].record).target

---------------------------------------------------------------------------
(* Path engine: get_value on a source record *)

\* longest list held by a record that is read
MaxItems == 2
ReadIndexes == (0 - (MaxItems + 1))..MaxItems
ReadElements == {VInt(1), Dict1("b", VInt(2)), VList(<<Dict1("b", VInt(3))>>)}
RECURSIVE ListsOfLength(_)
ListsOfLength(n) ==
    IF n = 0 THEN {<<>>}
    ELSE {Append(l, e) : l \in ListsOfLength(n - 1), e \in ReadElements}
ReadLists == UNION {ListsOfLength(n) : n \in 0..MaxItems}
ReadValues ==
    {VList(l) : l \in ReadLists}
        \cup {VNull, VInt(1), VStr(<<"x", "y">>), Dict1("b", VInt(2)),
              Dict1("b", VList(<<VInt(3), VInt(4)>>))}
ReadRecords == {EmptyMap} \cup {Dict1("a", v) : v \in ReadValues}

\* a source path as the parser leaves it: dotted names, a name carrying at
\* most one subscript ("a[0]", "a[-1]", "a[*]")
ReadSubscripts == {<<>>} \cup {<<SegIdx(i)>> : i \in ReadIndexes}
ReadSteps == {<<SegName(n)>> \o sub : n \in PathNames, sub \in ReadSubscripts}
PlainReads == ReadSteps \cup {s \o t : s \in ReadSteps, t \in ReadSteps}
WildcardReads ==
    {<<SegName(n), Star>> \o suffix : n \in PathNames, suffix \in {<<>>} \cup ReadSteps}
Reads == PlainReads \cup WildcardReads

\* the path string of a sequence of steps
RECURSIVE PathOf(_)
PathOf(steps) ==
    IF steps = <<>> THEN <<>>
    ELSE LET step == Head(steps)
             text == IF step = Star THEN <<"[", "*", "]">>
                     ELSE IF step.k = "idx" THEN <<"[">> \o IntStr(step.i) \o <<"]">>
                     ELSE <<step.s>>
             rest(r) == IF r = <<>> \/ Head(Tail(steps)).k = "idx" \/ Head(Tail(steps)) = Star
                        THEN text \o r ELSE text \o <<".">> \o r
         IN rest(PathOf(Tail(steps)))

InitRead ==
    /\ path \in {PathOf(steps) : steps \in Reads}
    /\ record \in ReadRecords
    /\ got = NoResult
    /\ val = VNull /\ data = NoResult
    /\ mfile = MappingFile(<<>>, <<>>, <<>>, <<>>)
    /\ interp = NoResult /\ comp = NoResult /\ when_state = FALSE
    /\ IdleCall /\ IdleRegistry /\ IdleRest

\* evaluator.get_value(path, record)
ReadValue ==
    /\ got.st = "none"
    /\ got' = Returned(get_value(path, record))
    /\ UNCHANGED <<path, val, data, tv>>
    /\ UNCHANGED transformerVars /\ UNCHANGED registryVars /\ UNCHANGED restVars

NextRead == ReadValue
SpecRead == InitRead /\ [][NextRead]_vars

\* what one step of a path addresses in x: the value under a key of a map,
\* the element at an index of a sequence (a negative index counts from the
\* end), Null in every other case
Addressed(x, step) ==
    IF step.k = "name" THEN
        IF x.t = "map" /\ step.s \in DOMAIN x.v THEN x.v[step.s] ELSE VNull
    ELSE IF x.t = "list" /\ 0 <= step.i /\ step.i < Len(x.v) THEN x.v[step.i + 1]
    ELSE IF x.t = "list" /\ step.i < 0 /\ 0 - step.i <= Len(x.v)
        THEN x.v[Len(x.v) + step.i + 1]
    ELSE VNull
RECURSIVE Follow(_, _)
Follow(x, steps) ==
    IF steps = <<>> THEN x ELSE Follow(Addressed(x, Head(steps)), Tail(steps))

\* C21: get_value does not raise, and on a path of names and integer
\* subscripts it returns what the steps address: Null after a missing key, a
\* field of a non-map, an index of a non-sequence or an index outside
\* -len <= i < len, the element (negative indexes from the end) otherwise
C21_ReadNeverRaises ==
    got.st # "none" =>
        /\ got.st = "ok"
        /\ \A steps \in PlainReads :
            path = PathOf(steps) => got.out = Follow(record, steps)
\* a negative subscript has read the last element of a two-element list and
\* a field of it
C21_Witness ==
    /\ got.st = "ok"
    /\ path = PathOf(<<SegName("a"), SegIdx(-1), SegName("b")>>)
    /\ record = Dict1("a", VList(<<VInt(1), Dict1("b", VInt(2))>>))
    /\ got.out = VInt(2)

\* C22: reading name[*].suffix where name holds a sequence of n elements
\* returns the n results of reading the suffix in each element, so an
\* element that is not a map contributes Null; with no suffix the elements
\* themselves are returned
C22_WildcardRead ==
    got.st = "ok" =>
        \A n \in PathNames, suffix \in {<<>>} \cup ReadSteps :
            /\ path = PathOf(<<SegName(n), Star>> \o suffix)
            /\ Follow(record, <<SegName(n)>>).t = "list"
            => LET elements == Follow(record, <<SegName(n)>>).v
               IN got.out = VList([i \in DOMAIN elements |-> Follow(elements[i], suffix)])

---------------------------------------------------------------------------
(* Path engine: two set_value calls in a row on one target dict, as two     *)
(* mappings of one transform make them                                      *)

WriteIndexes == 0..1
WriteSteps ==
    {<<SegName(n)>> \o sub : n \in PathNames,
                             sub \in {<<>>} \cup {<<SegIdx(i)>> : i \in WriteIndexes}}
PlainWrites == WriteSteps \cup {s \o t : s \in WriteSteps, t \in WriteSteps}
\* prefix[*] and prefix[*].suffix, the prefix of one or two names
WildcardPrefixes == {<<SegName(n)>> : n \in PathNames} \cup {<<SegName("a"), SegName("b")>>}
WildcardSuffixes == {<<>>} \cup {<<SegName(n)>> : n \in PathNames}
                           \cup {<<SegName("a"), SegName("b")>>}
WildcardWrites == {p \o <<Star>> \o s : p \in WildcardPrefixes, s \in WildcardSuffixes}
Writes == PlainWrites \cup WildcardWrites
WritePaths == {PathOf(steps) : steps \in Writes}
WriteValues ==
    {VNull, VInt(1), VStr(<<"v">>), Dict1("k", VInt(1)),
     VList(<<VInt(1)>>), VList(<<VInt(2), VInt(3)>>)}

InitWrite ==
    /\ path \in WritePaths
    /\ val \in WriteValues
    /\ data = NoResult
    /\ got = NoResult
    /\ IdleTransformer /\ IdleCall /\ IdleRegistry /\ IdleRest

\* a second evaluator.set_value(path, val, target) on the dict the first
\* call wrote: data keeps the dict before the call, got its outcome
SetNextValue ==
    /\ data.st = "ok"
    /\ got.st = "none"
    /\ \E p \in WritePaths, v \in WriteValues :
        /\ path' = p
        /\ val' = v
        /\ \E r \in {set_value(p, v, data.out)} :
              got' = IF r.err = "" THEN Returned(r.v) ELSE Raised(r.err)
    /\ UNCHANGED <<data, tv>>
    /\ UNCHANGED transformerVars /\ UNCHANGED registryVars /\ UNCHANGED restVars

NextWrite == SetValue \/ SetNextValue
SpecWrite == InitWrite /\ [][NextWrite]_vars

\* the last set_value call has returned; the dict before it and after it
WriteReturned == got.st = "ok" \/ (got.st = "none" /\ data.st = "ok")
WriteRaised == got.st = "raise" \/ data.st = "raise"
Before == IF got.st = "ok" THEN data.out ELSE EmptyMap
After == IF got.st = "ok" THEN got.out ELSE data.out

\* the keys of x that the step does not address are in y with their values
KeptBeside(x, y, step) ==
    IF x.t = "map" THEN
        /\ y.t = "map"
        /\ \A k \in DOMAIN x.v :
              (step.k = "name" /\ k = step.s) \/ (k \in DOMAIN y.v /\ y.v[k] = x.v[k])
    ELSE IF x.t = "list" THEN
        /\ y.t = "list"
        /\ \A i \in DOMAIN x.v :
              (step.k = "idx" /\ i = step.i + 1) \/ (i \in DOMAIN y.v /\ y.v[i] = x.v[i])
    ELSE TRUE
\* at every container on the path, the entries beside the path are kept
RECURSIVE KeptOffPath(_, _, _)
KeptOffPath(x, y, steps) ==
    \/ steps = <<>>
    \/ /\ KeptBeside(x, y, Head(steps))
       /\ KeptOffPath(Addressed(x, Head(steps)), Addressed(y, Head(steps)), Tail(steps))

\* C23: on a path without a wildcard, set_value puts a map, never a
\* sequence, at each intermediate segment that was missing (also before a
\* numeric index), the leaf then holds the value, and what the dict held
\* beside the path is unchanged
C23_OnlyMapsCreated ==
    WriteReturned =>
        \A steps \in PlainWrites :
            path = PathOf(steps) =>
                /\ \A n \in 1..(Len(steps) - 1) :
                      Follow(Before, SubSeq(steps, 1, n)) = VNull
                          => Follow(After, SubSeq(steps, 1, n)).t = "map"
                /\ KeptOffPath(Before, After, steps)

\* the outcome of the last set_value call and the dict it was given
LastWrite == IF got.st = "none" THEN data ELSE got
TargetBefore == IF got.st = "none" THEN EmptyMap ELSE data.out

\* nothing is stored under the names `steps`: the walk through maps ends at
\* a missing key
RECURSIVE AbsentIn(_, _)
AbsentIn(x, steps) ==
    /\ x.t = "map"
    /\ \/ Head(steps).s \notin DOMAIN x.v
       \/ Len(steps) > 1 /\ AbsentIn(x.v[Head(steps).s], Tail(steps))

Max(m, n) == IF m >= n THEN m ELSE n

\* C24: a sequence of n values written to prefix[*].suffix, the array at
\* prefix absent or of m elements, does not raise and leaves an array of
\* max(m, n) elements whose element i holds value[i] at suffix for i < n,
\* the other keys of the elements that were there kept; a scalar appends
\* exactly one element holding it at suffix
C24_WildcardWrite ==
    LastWrite.st # "none" =>
        \A prefix \in WildcardPrefixes, suffix \in WildcardSuffixes \ {<<>>} :
            /\ path = PathOf(prefix \o <<Star>> \o suffix)
            /\ AbsentIn(TargetBefore, prefix) \/ Follow(TargetBefore, prefix).t = "list"
            => /\ LastWrite.st = "ok"
               /\ LET old == IF AbsentIn(TargetBefore, prefix) THEN <<>>
                             ELSE Follow(TargetBefore, prefix).v
                      array == Follow(LastWrite.out, prefix)
                  IN  /\ array.t = "list"
                      /\ IF val.t = "list" THEN
                            /\ Len(array.v) = Max(Len(old), Len(val.v))
                            /\ \A i \in DOMAIN val.v : Follow(array.v[i], suffix) = val.v[i]
                            /\ \A i \in DOMAIN old :
                                  IF i <= Len(val.v)
                                  THEN old[i].t = "map" => KeptOffPath(old[i], array.v[i], suffix)
                                  ELSE array.v[i] = old[i]
                         ELSE
                            /\ Len(array.v) = Len(old) + 1
                            /\ SubSeq(array.v, 1, Len(old)) = old
                            /\ array.v[Len(old) + 1].t = "map"
                            /\ Follow(array.v[Len(old) + 1], suffix) = val

\* C25: in @compute(name(args)) a function registered under the name is
\* called in preference to the builtin aggregate of that name: with count
\* registered from custom.py (it returns 1), count(a) is that function's
\* result for every record
C25_ExternalBeforeAggregate ==
    (/\ mfile = FileConfiguredCount
     /\ interp.st # "none"
     /\ "count" \in DOMAIN functions)
    => interp = Returned(Dict1("out", CallFn(functions["count"], <<DictGet(record, "a")>>).v))

\* C26: for items[*].x : out[*].y and a record whose items has n elements,
\* the generated transformer returns, without raising, out as n maps with
\* out[i].y equal to items[i].x, the result the interpreter returns
C26_GeneratedFanOut ==
    (/\ mfile = FileFanOut
     /\ HasKey(record, "items") /\ IsList(DictGet(record, "items"))
     /\ BothRan)
    => /\ comp.st = "ok"
       /\ HasKey(comp.out, "out")
       /\ LET items == DictGet(record, "items").v
              out == DictGet(comp.out, "out")
          IN /\ IsList(out)
             /\ Len(out.v) = Len(items)
             /\ \A i \in DOMAIN items :
                   /\ IsMap(out.v[i])
                   /\ DictGet(out.v[i], "y") = Follow(items[i], <<SegName("x")>>)
       /\ comp = interp

\* C27: the optional marker matters only when the source is missing: under
\* a.b? : c a record that holds a value v other than Null at a.b gets c = v
\* written, as under a.b : c
C27_OptionalPresent ==
    (/\ mfile = FileOptional
     /\ interp.st # "none"
     /\ Follow(record, <<SegName("a"), SegName("b")>>) # VNull)
    => interp = Returned(Dict1("c", Follow(record, <<SegName("a"), SegName("b")>>)))

\* C28: evaluating a @when condition does not raise: under @when n > 1
\* { a : d } a record without n, or with an n that is not a number, makes
\* the condition false, so the transform returns and writes no d
C28_WhenNeverRaises ==
    (mfile = FileWhenGreater /\ interp.st # "none")
    => /\ interp.st = "ok"
       /\ ~IsNumber(Follow(record, <<SegName("n")>>)) => ~HasKey(interp.out, "d")

\* C29: a write does not raise whatever the earlier write left on its path
\* (a scalar or a sequence under a key it passes through included), and the
\* path then reads back the value written
C29_WriteNeverRaises ==
    LastWrite.st # "none" =>
        \A steps \in PlainWrites :
            path = PathOf(steps) =>
                /\ LastWrite.st = "ok"
                /\ get_value(path, LastWrite.out) = val

\* the int under key k of the record, when there is one
HasInt(k) == HasKey(record, k) /\ DictGet(record, k).t = "int"
IntAt(k) == DictGet(record, k).v
\* the transform returned {"out": n}, n the number of value i
OutIs(i) ==
    /\ interp.st = "ok"
    /\ HasKey(interp.out, "out")
    /\ PyEq(DictGet(interp.out, "out"), VInt(i))

\* C30: @compute arithmetic over int fields has the standard precedence and
\* is left associative: a + b * c is a + (b * c), a - b - c is (a - b) - c,
\* and in sum(a[*].p) * k the product is taken of the aggregate's result
C30_ArithmeticPrecedence ==
    interp.st # "none" =>
        /\ (mfile = FileAddMul /\ HasInt("a") /\ HasInt("b") /\ HasInt("c"))
              => OutIs(IntAt("a") + (IntAt("b") * IntAt("c")))
        /\ (mfile = FileSubSub /\ HasInt("a") /\ HasInt("b") /\ HasInt("c"))
              => OutIs((IntAt("a") - IntAt("b")) - IntAt("c"))
        /\ (/\ mfile = FileSumTimes
            /\ record = Dict2("a", VList(<<Dict1("p", VInt(1)), Dict1("p", VInt(2))>>),
                              "k", VInt(10)))
              => OutIs((1 + 2) * 10)

=========================================================================
